---- MODULE Spec2Model ----
(***************************************************************************)
(* Bookio back end: the Books table and the borrow / return workflow of    *)
(* BooksService (src/src/books/books.service.ts).                          *)
(*                                                                         *)
(* The Books table is the function `books` from the ids of the persisted   *)
(* records to the records.  Every request is run by a process; a handler   *)
(* is cut at its awaits on the record store, so that the reads and the     *)
(* writes of concurrent requests interleave as they do in the service.     *)
(* Spec runs one request at a time on the whole catalogue; SpecConc        *)
(* interleaves the requests of several processes on one book.              *)
(*                                                                         *)
(* The Categories and the Authors tables (categories.service.ts,           *)
(* authors.service.ts) are the functions `categories` and `authors`, the   *)
(* objects of the blob store (s3.service.ts) are the set `blobs`, and      *)
(* `uuid` counts the identifiers that uuidv4 has produced for each of      *)
(* them.  SpecNamed and SpecNamedConc run the requests on the two entity   *)
(* managers, SpecCatalog and SpecCatalogConc the creation and the removal  *)
(* of books, SpecAssets the update of the attachments of a book.  An      *)
(* upload to the blob store succeeds or fails; so does a delete of remove. *)
(***************************************************************************)
EXTENDS Integers, Sequences, FiniteSets, TLC

\* ---------------------------------------------------------------- bounds
NumBooks == 4
NumUsers == 2
NumProcs == 2
MaxQty == 2
\* the records a specification creates in one table
MaxNew == 2
\* the value the counter requests raise a booksCount to
MaxCount == 2
\* the uploads of the updates of a behaviour
MaxUploads == 2

\* ------------------------------------------------------ program constants
MAX_BORROWED_BOOKS == 3
MAX_BORROW_DAYS == 30
\* time is counted in hours: one day, 1000 * 60 * 60 * 24 ms, is 24 hours
DayLen == 24
\* the clock read by `new Date()` in borrow
Now == 100
\* a borrowerId that is null or was never set
NoUser == 0
\* a startDate / returnDate that was never set
NoDate == 0
\* an absent lastEvaluatedKey / ExclusiveStartKey
NoKey == 0
\* a cover, pdf or profile that is not set; a file that was not sent
NoBlob == 0

BookIds == 1..NumBooks
Users == 1..NumUsers
Procs == 1..NumProcs
SeqProcs == {p \in Procs : p = 1}
\* the ids of the requests: the ids of the catalogue and an id that no
\* record was ever created with
RequestIds == 1..(NumBooks + 1)
\* the book the concurrent requests contend for
ConcIds == {b \in BookIds : b = 1}

AVAILABLE == "AVAILABLE"
BORROWED == "BORROWED"
UNAVAILABLE == "UNAVAILABLE"

\* the titles, authors and categories of the catalogue
TitleA == <<"a">>
TitleB == <<"b", " ", "c">>
TitleOf(b) == IF b % 2 = 1 THEN TitleA ELSE TitleB
AuthorOf(b) == 1 + (b % 2)
CategoryOf(b) == 1 + ((b \div 2) % 2)
IsbnOf(b) == b
CoverOf(b) == 2 * b - 1
PdfOf(b) == 2 * b
Authors == {AuthorOf(b) : b \in BookIds}
Categories == {CategoryOf(b) : b \in BookIds}
TitleInputs == {TitleA, <<" ">> \o TitleA, TitleB \o <<" ">>, <<"z">>, <<" ">>}

\* the (startDate, returnDate) pairs of the borrow requests
DatePairs ==
    { <<Now - 1, Now + DayLen>>,
      <<Now, Now>>,
      <<Now, Now + MAX_BORROW_DAYS * DayLen>>,
      <<Now, Now + MAX_BORROW_DAYS * DayLen + 1>> }

\* the quantity each book of the catalogue was created with
InitQuantity(b) == IF b = 2 THEN MaxQty ELSE 1

VARIABLES books, pc, req, snap, resp, outstanding,
          categories, authors, blobs, uuid, failed

vars == <<books, pc, req, snap, resp, outstanding,
          categories, authors, blobs, uuid, failed>>

\* the tables of the entity managers, the blob store and the identifiers
stores == <<categories, authors, blobs, uuid>>

\* ------------------------------------------------------------ the records
\* the CreateBookDto the book b of the catalogue was created with
CatalogueDto(b) ==
    [ title |-> TitleOf(b), authorId |-> AuthorOf(b),
      categoryId |-> CategoryOf(b),
      isbn |-> IsbnOf(b), quantity |-> InitQuantity(b) ]

\* BooksService.create: the record put for a new book
NewBook(id, dto, coverUrl, pdfUrl) ==
    [ id |-> id, quantity |-> dto.quantity, status |-> AVAILABLE,
      borrowerId |-> NoUser, startDate |-> NoDate, returnDate |-> NoDate,
      title |-> dto.title, authorId |-> dto.authorId,
      categoryId |-> dto.categoryId,
      isbn |-> dto.isbn, cover |-> coverUrl, pdf |-> pdfUrl ]

\* CategoriesService.create: the record put for a new category
NewCategory(id, name) == [ id |-> id, name |-> name, booksCount |-> 0 ]

\* AuthorsService.create: the record put for a new author
NewAuthor(id, name, profileUrl) ==
    [ id |-> id, name |-> name, profile |-> profileUrl, booksCount |-> 0 ]

\* the table without a record, and the object without an entry
EmptyTable == [k \in {} |-> NoKey]

\* a request: the handler called and its arguments
NoReq ==
    [ op |-> "none", id |-> NoKey, user |-> NoUser,
      startDate |-> NoDate, returnDate |-> NoDate,
      key |-> NoKey, title |-> <<>>, limit |-> NoKey, lastKey |-> NoKey,
      name |-> "", picture |-> "none", isbn |-> NoKey,
      categoryId |-> NoKey, authorId |-> NoKey,
      cover |-> FALSE, pdf |-> FALSE, dto |-> EmptyTable ]

Req(op) == [NoReq EXCEPT !.op = op]

Response(kind, msg, bks, key) ==
    [ kind |-> kind, msg |-> msg, books |-> bks, lastEvaluatedKey |-> key ]

NoResp == Response("none", "", <<>>, NoKey)

Ok(bks) == Response("ok", "", bks, NoKey)

\* -------------------------------------------------------------- helpers
RECURSIVE SortedIds(_)
\* the ids of S in the order a scan or a query returns them
SortedIds(S) ==
    IF S = {} THEN <<>>
    ELSE LET m == CHOOSE x \in S : \A y \in S : x <= y
         IN  <<m>> \o SortedIds(S \ {m})

RECURSIVE TrimLeft(_)
TrimLeft(s) ==
    IF s # <<>> /\ Head(s) = " " THEN TrimLeft(Tail(s)) ELSE s

RECURSIVE TrimRight(_)
TrimRight(s) ==
    IF s # <<>> /\ s[Len(s)] = " " THEN TrimRight(SubSeq(s, 1, Len(s) - 1))
    ELSE s

\* String.prototype.trim
Trim(s) == TrimRight(TrimLeft(s))

\* variant: the quotient is rounded down
CeilDiv_Floor(a, b) == a \div b

\* Math.ceil(a / b) for a >= 0, b > 0
CeilDiv(a, b) == (a + b - 1) \div b

\* the records of the ids in S, in scan order
Items(store, S) ==
    LET ids == SortedIds(S)
    IN  [i \in DOMAIN ids |-> store[ids[i]]]

\* variant: the reader returns the stored status
DeriveStatus_Stored(book) == book

\* the status the readers compute from the quantity
DeriveStatus(book) ==
    [book EXCEPT !.status = IF book.quantity > 0 THEN AVAILABLE ELSE UNAVAILABLE]

DeriveAll(bks) == [i \in DOMAIN bks |-> DeriveStatus(bks[i])]

\* ------------------------------------------------- BooksService, readers
\* findOne: the NotFoundException is thrown inside the try block, and the
\* catch block turns every error into InternalServerErrorException
findOne(store, id) ==
    IF id \in DOMAIN store
    THEN Ok(<<DeriveStatus(store[id])>>)
    ELSE Response("InternalServerError", "Failed to fetch book", <<>>, NoKey)

\* findAll: a scan of at most `limit` records after the start key
findAll(store, limit, lastKey) ==
    LET after == {b \in DOMAIN store : lastKey = NoKey \/ b > lastKey}
        ids   == SortedIds(after)
        n     == IF Len(ids) < limit THEN Len(ids) ELSE limit
        page  == [i \in 1..n |-> store[ids[i]]]
    IN  Response("ok", "Books retrieved successfully", DeriveAll(page),
                 IF n = limit THEN ids[n] ELSE NoKey)

\* findByCategory, first page: a query of CategoryIndex of at most `limit`
findByCategory(store, categoryId, limit) ==
    LET ids  == SortedIds({b \in DOMAIN store : store[b].categoryId = categoryId})
        n    == IF Len(ids) < limit THEN Len(ids) ELSE limit
        page == [i \in 1..n |-> store[ids[i]]]
    IN  Response("ok", "Books retrieved successfully", DeriveAll(page),
                 IF n = limit THEN ids[n] ELSE NoKey)

\* findByAuthor: a query of AuthorIndex
findByAuthor(store, authorId) ==
    Response("ok", "Books retrieved successfully",
             DeriveAll(Items(store, {b \in DOMAIN store : store[b].authorId = authorId})),
             NoKey)

\* findByRating: a query of RatingIndex, an index the table of the books
\* does not declare; the store rejects the query and the error is rethrown
\* as InternalServerErrorException
findByRating(store, rating) ==
    Response("InternalServerError", "Failed to fetch books by rating", <<>>, NoKey)

\* findByTitle: a query of TitleIndex on the trimmed title; the items are
\* returned as stored. The store rejects a query whose key value is the
\* empty string, and the catch wraps every error into
\* InternalServerErrorException
findByTitle(store, title) ==
    IF Trim(title) = <<>>
    THEN Response("InternalServerError", "Failed to fetch books by title",
                  <<>>, NoKey)
    ELSE Response("ok", "Books retrieved successfully",
                  Items(store, {b \in DOMAIN store : store[b].title = Trim(title)}),
                  NoKey)

\* findBorrowedBooksByUser: a scan filtered on borrowerId and status
findBorrowedBooksByUser(store, userId) ==
    LET bks == Items(store, {b \in DOMAIN store :
                                /\ store[b].borrowerId = userId
                                /\ store[b].status = BORROWED})
    IN  Response("ok",
                 IF Len(bks) = 0 THEN "No borrowed books found" ELSE "Found borrowed book(s)",
                 bks, NoKey)

\* ------------------------------------------------- BooksService, search
\* String.prototype.toLowerCase on the letters of the titles and queries
toLowerCase(s) ==
    [i \in DOMAIN s |-> IF s[i] = "A" THEN "a" ELSE IF s[i] = "B" THEN "b" ELSE s[i]]

\* String.prototype.split(' ')
RECURSIVE split(_)
split(s) ==
    IF \A i \in DOMAIN s : s[i] # " "
    THEN <<s>>
    ELSE LET i == CHOOSE k \in DOMAIN s :
                      s[k] = " " /\ \A j \in 1..(k - 1) : s[j] # " "
         IN  <<SubSeq(s, 1, i - 1)>> \o split(SubSeq(s, i + 1, Len(s)))

\* the words of the query: lower-cased, trimmed, split on spaces, the
\* empty words dropped
queryWords(query) ==
    SelectSeq(split(Trim(toLowerCase(query))), LAMBDA word : Len(word) > 0)

\* String.prototype.includes, and contains() of a FilterExpression: both
\* compare the characters as they are
includes(s, word) ==
    \E i \in 0..(Len(s) - Len(word)) : SubSeq(s, i + 1, i + Len(word)) = word

\* the FilterExpression of search: the stored title or the stored author
\* contains a word of the query; contains() is false on an attribute the
\* record does not have
SearchFilter(book, words) ==
    \E i \in DOMAIN words :
        \/ includes(book.title, words[i])
        \/ "author" \in DOMAIN book /\ includes(book.author, words[i])

\* the number of words of the query that the lower-cased title includes
\* or, when the record has an author that is not the empty string, the
\* lower-cased author includes
Matches(book, words) ==
    Cardinality({i \in DOMAIN words :
                    \/ includes(toLowerCase(book.title), words[i])
                    \/ /\ "author" \in DOMAIN book
                       /\ book.author # <<>>
                       /\ includes(toLowerCase(book.author), words[i])})

\* variant: the comparator ranks the fewer matches first
Compare_Ascending(a, b, words) == Matches(a, words) - Matches(b, words)

\* the comparator of the sort: bMatches - aMatches
Compare(a, b, words) == Matches(b, words) - Matches(a, words)

\* Array.prototype.sort is stable: an item is placed behind the items that
\* the comparator does not put behind it
RECURSIVE sort(_, _)
sort(items, words) ==
    IF items = <<>>
    THEN <<>>
    ELSE LET sorted == sort(SubSeq(items, 1, Len(items) - 1), words)
             x == items[Len(items)]
             n == Cardinality({k \in DOMAIN sorted :
                                  Compare(sorted[k], x, words) <= 0})
         IN  SubSeq(sorted, 1, n) \o <<x>> \o SubSeq(sorted, n + 1, Len(sorted))

\* search: a scan with an empty FilterExpression is rejected by the store,
\* and the error is wrapped into InternalServerErrorException
search(store, query) ==
    LET words == queryWords(query)
        found == Items(store, {b \in DOMAIN store : SearchFilter(store[b], words)})
        sortedBooks == sort(found, words)
    IN  IF words = <<>>
        THEN Response("InternalServerError", "Failed to search books", <<>>, NoKey)
        ELSE Response("ok",
                      IF Len(sortedBooks) > 0 THEN "Found books matching"
                      ELSE "No books found matching",
                      sortedBooks, NoKey)

\* ------------------------------------------- BooksService, borrow / return
BadRequest(msg) == Response("BadRequest", msg, <<>>, NoKey)

\* variant: the limit check lets a fourth book through
BorrowEligibility_LimitOffByOne(book, userBorrowedBooks, id, startDate, returnDate) ==
    IF \E i \in DOMAIN userBorrowedBooks : userBorrowedBooks[i].id = id
    THEN BadRequest("You have already borrowed this book")
    ELSE IF Len(userBorrowedBooks) > MAX_BORROWED_BOOKS
    THEN BadRequest("You cannot borrow more than 3 books at a time. Please return some books first.")
    ELSE IF book.quantity <= 0
    THEN BadRequest("Book is not available for borrowing")
    ELSE IF startDate < Now
    THEN BadRequest("Start date cannot be in the past")
    ELSE IF returnDate <= startDate
    THEN BadRequest("Return date must be after start date")
    ELSE IF CeilDiv(returnDate - startDate, DayLen) > MAX_BORROW_DAYS
    THEN BadRequest("Maximum borrow duration is 30 days")
    ELSE Ok(<<>>)

\* variant: the availability check lets a book of quantity 0 through
BorrowEligibility_ZeroAvailable(book, userBorrowedBooks, id, startDate, returnDate) ==
    IF \E i \in DOMAIN userBorrowedBooks : userBorrowedBooks[i].id = id
    THEN BadRequest("You have already borrowed this book")
    ELSE IF Len(userBorrowedBooks) >= MAX_BORROWED_BOOKS
    THEN BadRequest("You cannot borrow more than 3 books at a time. Please return some books first.")
    ELSE IF book.quantity < 0
    THEN BadRequest("Book is not available for borrowing")
    ELSE IF startDate < Now
    THEN BadRequest("Start date cannot be in the past")
    ELSE IF returnDate <= startDate
    THEN BadRequest("Return date must be after start date")
    ELSE IF CeilDiv(returnDate - startDate, DayLen) > MAX_BORROW_DAYS
    THEN BadRequest("Maximum borrow duration is 30 days")
    ELSE Ok(<<>>)

\* variant: the borrow limit is checked before the already-borrowed check
BorrowEligibility_LimitFirst(book, userBorrowedBooks, id, startDate, returnDate) ==
    IF Len(userBorrowedBooks) >= MAX_BORROWED_BOOKS
    THEN BadRequest("You cannot borrow more than 3 books at a time. Please return some books first.")
    ELSE IF \E i \in DOMAIN userBorrowedBooks : userBorrowedBooks[i].id = id
    THEN BadRequest("You have already borrowed this book")
    ELSE IF book.quantity <= 0
    THEN BadRequest("Book is not available for borrowing")
    ELSE IF startDate < Now
    THEN BadRequest("Start date cannot be in the past")
    ELSE IF returnDate <= startDate
    THEN BadRequest("Return date must be after start date")
    ELSE IF CeilDiv(returnDate - startDate, DayLen) > MAX_BORROW_DAYS
    THEN BadRequest("Maximum borrow duration is 30 days")
    ELSE Ok(<<>>)

\* borrow: the checks between the two reads and the write
BorrowEligibility(book, userBorrowedBooks, id, startDate, returnDate) ==
    IF \E i \in DOMAIN userBorrowedBooks : userBorrowedBooks[i].id = id
    THEN BadRequest("You have already borrowed this book")
    ELSE IF Len(userBorrowedBooks) >= MAX_BORROWED_BOOKS
    THEN BadRequest("You cannot borrow more than 3 books at a time. Please return some books first.")
    ELSE IF book.quantity <= 0
    THEN BadRequest("Book is not available for borrowing")
    ELSE IF startDate < Now
    THEN BadRequest("Start date cannot be in the past")
    ELSE IF returnDate <= startDate
    THEN BadRequest("Return date must be after start date")
    ELSE IF CeilDiv(returnDate - startDate, DayLen) > MAX_BORROW_DAYS
    THEN BadRequest("Maximum borrow duration is 30 days")
    ELSE Ok(<<>>)

\* variant: the update is also conditioned on the quantity that was read
UpdateCondition_QuantityUnchanged(store, id, book) ==
    id \in DOMAIN store /\ store[id].quantity = book.quantity

\* the ConditionExpression of the update commands: attribute_exists(id)
UpdateCondition(store, id, book) == id \in DOMAIN store

\* variant: the quantity is written as it was read
BorrowUpdate_NoDecrement(stored, book, r) ==
    [stored EXCEPT !.borrowerId = r.user,
                   !.quantity = book.quantity,
                   !.startDate = r.startDate,
                   !.returnDate = r.returnDate,
                   !.status = BORROWED]

\* variant: the stored quantity is decremented, not the quantity read
BorrowUpdate_StoredDecrement(stored, book, r) ==
    [stored EXCEPT !.borrowerId = r.user,
                   !.quantity = stored.quantity - 1,
                   !.startDate = r.startDate,
                   !.returnDate = r.returnDate,
                   !.status = BORROWED]

\* borrow: the SET expression applied to the stored record
BorrowUpdate(stored, book, r) ==
    [stored EXCEPT !.borrowerId = r.user,
                   !.quantity = book.quantity - 1,
                   !.startDate = r.startDate,
                   !.returnDate = r.returnDate,
                   !.status = BORROWED]

\* returnBook: the checks between the read and the write
ReturnEligibility(book, id, userId) ==
    IF book.status # BORROWED
    THEN BadRequest("Book is not currently borrowed")
    ELSE IF book.borrowerId # userId
    THEN BadRequest("Book was not borrowed by you")
    ELSE Ok(<<>>)

\* returnBook: the values of the SET expression; :null is the value of
\* borrowerId
ReturnValues(book) ==
    [ borrowerId |-> NoUser, quantity |-> book.quantity + 1, status |-> AVAILABLE ]

\* the table of the books: borrowerId and status are the keys of
\* BorrowerStatusIndex, and authorId, categoryId, isbn, status, title,
\* cover and pdf are each the hash key of an index, all declared of type S;
\* the store rejects an update that gives an index key a value of another
\* type, NULL included, and the document client sends the empty string as
\* NULL
IndexKeysAccepted(values) ==
    /\ \A k \in DOMAIN values \cap {"borrowerId"} : values[k] # NoUser
    /\ \A k \in DOMAIN values \cap {"status"} : values[k] # ""
    /\ \A k \in DOMAIN values \cap {"title"} : values[k] # <<>>
    /\ \A k \in DOMAIN values \cap {"authorId", "categoryId", "isbn"} :
          values[k] # NoKey
    /\ \A k \in DOMAIN values \cap {"cover", "pdf"} : values[k] # NoBlob

\* ------------------------------------------------------------------ Init
\* no request is in flight
InitProcs ==
    /\ pc = [p \in Procs |-> "idle"]
    /\ req = [p \in Procs |-> NoReq]
    /\ snap = [p \in Procs |-> <<>>]
    /\ resp = [p \in Procs |-> NoResp]
    /\ outstanding = [u \in Users |-> 0]
    /\ failed = FALSE

\* the books were created with a quantity >= 0, status AVAILABLE and no
\* borrower, their categories and authors before them; every creation
\* raised the counters of the category and of the author of the book
Init ==
    /\ books = [b \in BookIds |-> NewBook(b, CatalogueDto(b), CoverOf(b), PdfOf(b))]
    /\ categories =
         [c \in Categories |->
            [NewCategory(c, IF c = 1 THEN "c1" ELSE "c2") EXCEPT !.booksCount =
                Cardinality({b \in BookIds : CategoryOf(b) = c})]]
    /\ authors =
         [a \in Authors |->
            [NewAuthor(a, IF a = 1 THEN "a1" ELSE "a2", NoBlob) EXCEPT !.booksCount =
                Cardinality({b \in BookIds : AuthorOf(b) = a})]]
    /\ blobs = {CoverOf(b) : b \in BookIds} \cup {PdfOf(b) : b \in BookIds}
    /\ uuid = [ category |-> Cardinality(Categories), author |-> Cardinality(Authors),
                book |-> NumBooks, blob |-> 2 * NumBooks ]
    /\ InitProcs

\* the handler of p ends with response r; `failed` records that a request
\* of the behaviour ended with an error
Finish(p, r) ==
    /\ pc' = [pc EXCEPT ![p] = "done"]
    /\ snap' = [snap EXCEPT ![p] = <<>>]
    /\ resp' = [resp EXCEPT ![p] = r]
    /\ failed' = (failed \/ r.kind # "ok")

\* the handler of p awaits its next call on the store
Await(p, label, bks) ==
    /\ pc' = [pc EXCEPT ![p] = label]
    /\ snap' = [snap EXCEPT ![p] = bks]
    /\ resp' = [resp EXCEPT ![p] = NoResp]
    /\ UNCHANGED failed

\* the response of p is delivered; p is free for the next request
Reply(p) ==
    /\ pc[p] = "done"
    /\ pc' = [pc EXCEPT ![p] = "idle"]
    /\ req' = [req EXCEPT ![p] = NoReq]
    /\ resp' = [resp EXCEPT ![p] = NoResp]
    /\ UNCHANGED <<books, snap, outstanding, failed>>
    /\ UNCHANGED stores

\* ------------------------------------------------------------- the readers
FindOne(p, id) ==
    /\ pc[p] = "idle"
    /\ req' = [req EXCEPT ![p] = [Req("findOne") EXCEPT !.id = id]]
    /\ Finish(p, findOne(books, id))
    /\ UNCHANGED <<books, outstanding>>
    /\ UNCHANGED stores

FindAll(p, limit, lastKey) ==
    /\ pc[p] = "idle"
    /\ req' = [req EXCEPT ![p] =
                 [Req("findAll") EXCEPT !.limit = limit, !.lastKey = lastKey]]
    /\ Finish(p, findAll(books, limit, lastKey))
    /\ UNCHANGED <<books, outstanding>>
    /\ UNCHANGED stores

FindByCategory(p, categoryId, limit) ==
    /\ pc[p] = "idle"
    /\ req' = [req EXCEPT ![p] =
                 [Req("findByCategory") EXCEPT !.key = categoryId, !.limit = limit]]
    /\ Finish(p, findByCategory(books, categoryId, limit))
    /\ UNCHANGED <<books, outstanding>>
    /\ UNCHANGED stores

FindByAuthor(p, authorId) ==
    /\ pc[p] = "idle"
    /\ req' = [req EXCEPT ![p] = [Req("findByAuthor") EXCEPT !.key = authorId]]
    /\ Finish(p, findByAuthor(books, authorId))
    /\ UNCHANGED <<books, outstanding>>
    /\ UNCHANGED stores

FindByRating(p, rating) ==
    /\ pc[p] = "idle"
    /\ req' = [req EXCEPT ![p] = [Req("findByRating") EXCEPT !.key = rating]]
    /\ Finish(p, findByRating(books, rating))
    /\ UNCHANGED <<books, outstanding>>
    /\ UNCHANGED stores

FindByTitle(p, title) ==
    /\ pc[p] = "idle"
    /\ req' = [req EXCEPT ![p] = [Req("findByTitle") EXCEPT !.title = title]]
    /\ Finish(p, findByTitle(books, title))
    /\ UNCHANGED <<books, outstanding>>
    /\ UNCHANGED stores

FindBorrowedBooksByUser(p, userId) ==
    /\ pc[p] = "idle"
    /\ req' = [req EXCEPT ![p] =
                 [Req("findBorrowedBooksByUser") EXCEPT !.user = userId]]
    /\ Finish(p, findBorrowedBooksByUser(books, userId))
    /\ UNCHANGED <<books, outstanding>>
    /\ UNCHANGED stores

\* search is called with a query
Search(p, query) ==
    /\ pc[p] = "idle"
    /\ req' = [req EXCEPT ![p] = [Req("search") EXCEPT !.title = query]]
    /\ Finish(p, search(books, query))
    /\ UNCHANGED <<books, outstanding>>
    /\ UNCHANGED stores

\* ------------------------------------------------------------------ borrow
\* borrow is called and reads the book; the error of findOne is neither a
\* NotFoundException nor a BadRequestException, so the catch block of
\* borrow throws a plain Error
BorrowFind(p, id, userId) ==
    /\ pc[p] = "idle"
    /\ req' = [req EXCEPT ![p] = [Req("borrow") EXCEPT !.id = id, !.user = userId]]
    /\ LET r == findOne(books, id)
       IN  IF r.kind = "ok"
           THEN Await(p, "borrow_scan", r.books)
           ELSE Finish(p, Response("Error", "Failed to borrow book", <<>>, NoKey))
    /\ UNCHANGED <<books, outstanding>>
    /\ UNCHANGED stores

\* variant: the update is sent before the request is checked, so that a
\* rejected request has written
BorrowCheck_WriteFirst(p, startDate, returnDate) ==
    /\ pc[p] = "borrow_scan"
    /\ req' = [req EXCEPT ![p].startDate = startDate, ![p].returnDate = returnDate]
    /\ LET userBorrowedBooks == findBorrowedBooksByUser(books, req[p].user)
           r == BorrowEligibility(snap[p][1], userBorrowedBooks.books,
                                  req[p].id, startDate, returnDate)
       IN  IF r.kind = "ok"
           THEN /\ Await(p, "borrow_write", snap[p])
                /\ UNCHANGED books
           ELSE /\ Finish(p, r)
                /\ books' = [b \in DOMAIN books |->
                               IF b = req[p].id
                               THEN BorrowUpdate(books[b], snap[p][1], req'[p])
                               ELSE books[b]]
    /\ UNCHANGED outstanding
    /\ UNCHANGED stores

\* borrow scans the books of the borrower and checks the request
BorrowCheck(p, startDate, returnDate) ==
    /\ pc[p] = "borrow_scan"
    /\ req' = [req EXCEPT ![p].startDate = startDate, ![p].returnDate = returnDate]
    /\ LET userBorrowedBooks == findBorrowedBooksByUser(books, req[p].user)
           r == BorrowEligibility(snap[p][1], userBorrowedBooks.books,
                                  req[p].id, startDate, returnDate)
       IN  IF r.kind = "ok"
           THEN Await(p, "borrow_write", snap[p])
           ELSE Finish(p, r)
    /\ UNCHANGED <<books, outstanding>>
    /\ UNCHANGED stores

\* borrow sends its update; a failed condition is rethrown as a plain Error
BorrowWrite(p) ==
    /\ pc[p] = "borrow_write"
    /\ IF UpdateCondition(books, req[p].id, snap[p][1])
       THEN /\ books' = [books EXCEPT ![req[p].id] =
                           BorrowUpdate(books[req[p].id], snap[p][1], req[p])]
            /\ Finish(p, Ok(<<books'[req[p].id]>>))
            /\ outstanding' = [outstanding EXCEPT ![req[p].user] = @ + 1]
       ELSE /\ Finish(p, Response("Error", "Failed to borrow book", <<>>, NoKey))
            /\ UNCHANGED <<books, outstanding>>
    /\ UNCHANGED <<req, stores>>

\* -------------------------------------------------------------- returnBook
\* returnBook reads the book and checks the request, then sends its update,
\* which the store accepts when the values fit the index keys and the
\* condition attribute_exists(id) holds; every error that is neither
\* NotFound nor BadRequest is rethrown as InternalServerErrorException
ReturnBook(p, id, userId) ==
    /\ pc[p] \in {"idle", "return_write"}
    /\ pc[p] = "return_write" => (id = req[p].id /\ userId = req[p].user)
    /\ req' = [req EXCEPT ![p] = [Req("returnBook") EXCEPT !.id = id, !.user = userId]]
    /\ IF pc[p] = "idle"
       THEN /\ LET f == findOne(books, id)
                   r == IF f.kind = "ok"
                        THEN ReturnEligibility(f.books[1], id, userId)
                        ELSE Response("InternalServerError",
                                      "Failed to return book", <<>>, NoKey)
               IN  IF r.kind = "ok"
                   THEN Await(p, "return_write", f.books)
                   ELSE Finish(p, r)
            /\ UNCHANGED <<books, outstanding>>
       ELSE IF /\ IndexKeysAccepted(ReturnValues(snap[p][1]))
               /\ UpdateCondition(books, id, snap[p][1])
       THEN /\ books' = [books EXCEPT ![id] =
                           [@ EXCEPT !.borrowerId = ReturnValues(snap[p][1]).borrowerId,
                                     !.quantity = ReturnValues(snap[p][1]).quantity,
                                     !.status = ReturnValues(snap[p][1]).status]]
            /\ Finish(p, Ok(<<books'[id]>>))
            /\ outstanding' = [outstanding EXCEPT ![userId] = @ - 1]
       ELSE /\ Finish(p, Response("InternalServerError",
                                  "Failed to return book", <<>>, NoKey))
            /\ UNCHANGED <<books, outstanding>>
    /\ UNCHANGED stores

\* ------------------------------------------------------------------ remove
\* remove reads the book; the error of findOne is rethrown as it is
RemoveFind(p, id) ==
    /\ pc[p] = "idle"
    /\ req' = [req EXCEPT ![p] = [Req("remove") EXCEPT !.id = id]]
    /\ LET r == findOne(books, id)
       IN  IF r.kind = "ok"
           THEN Await(p, "remove_cover", r.books)
           ELSE Finish(p, r)
    /\ UNCHANGED <<books, outstanding>>
    /\ UNCHANGED stores

\* variant: deleteFile leaves the object in the bucket
deleteFile_Keep(store, fileUrl) == store

\* S3Service.deleteFile: the DeleteObjectCommand
deleteFile(store, fileUrl) == store \ {fileUrl}

\* the error deleteFile throws when the DeleteObjectCommand fails
DeleteFileFailed ==
    Response("InternalServerError", "Failed to delete file", <<>>, NoKey)

\* remove deletes the cover of the record it read, when it has one;
\* deleted tells whether the bucket obeys
RemoveCover(p, deleted) ==
    /\ pc[p] = "remove_cover"
    /\ IF snap[p][1].cover = NoBlob
       THEN /\ Await(p, "remove_pdf", snap[p])
            /\ UNCHANGED blobs
       ELSE IF deleted
       THEN /\ blobs' = deleteFile(blobs, snap[p][1].cover)
            /\ Await(p, "remove_pdf", snap[p])
       ELSE /\ Finish(p, DeleteFileFailed)
            /\ UNCHANGED blobs
    /\ UNCHANGED <<books, req, outstanding, categories, authors, uuid>>

\* remove deletes the pdf of the record it read, when it has one
RemovePdf(p, deleted) ==
    /\ pc[p] = "remove_pdf"
    /\ IF snap[p][1].pdf = NoBlob
       THEN /\ Await(p, "remove_delete", snap[p])
            /\ UNCHANGED blobs
       ELSE IF deleted
       THEN /\ blobs' = deleteFile(blobs, snap[p][1].pdf)
            /\ Await(p, "remove_delete", snap[p])
       ELSE /\ Finish(p, DeleteFileFailed)
            /\ UNCHANGED blobs
    /\ UNCHANGED <<books, req, outstanding, categories, authors, uuid>>

\* remove sends its delete, conditioned on attribute_exists(id); the error
\* of a failed condition is rethrown as it is
RemoveDelete(p) ==
    /\ pc[p] = "remove_delete"
    /\ IF req[p].id \in DOMAIN books
       THEN /\ books' = [b \in DOMAIN books \ {req[p].id} |-> books[b]]
            /\ Finish(p, Response("ok", "Book has been successfully deleted",
                                  <<>>, NoKey))
       ELSE /\ Finish(p, Response("ConditionalCheckFailedException",
                                  "The conditional request failed", <<>>, NoKey))
            /\ UNCHANGED books
    /\ UNCHANGED <<req, outstanding, stores>>


\* ------------------------------------------- the Categories and Authors tables
\* the names of the create requests
Names == {"n1", "n2"}
\* the name the concurrent create requests contend for
ConcNames == {n \in Names : n = "n1"}
\* the profile picture of a create request: none, an image, another file
Pictures == {"none", "image", "other"}
\* the ids of the requests on the entity managers: the ids a behaviour can
\* create and one more
EntityIds == 1..(MaxNew + 1)

CONFLICT == 409
NOT_FOUND == 404
BAD_REQUEST == 400
INTERNAL_SERVER_ERROR == 500

\* the HTTP status each exception class is constructed with
HttpStatus(kind) ==
    CASE kind \in {"CategoryAlreadyExistsException", "AuthorAlreadyExistsException"}
           -> CONFLICT
      [] kind \in {"CategoryNotFoundException", "CategoryNotFoundByNameException",
                   "AuthorNotFoundException"}
           -> NOT_FOUND
      [] kind = "BadRequest" -> BAD_REQUEST
      [] OTHER -> INTERNAL_SERVER_ERROR

Failure(kind, msg) == Response(kind, msg, <<>>, NoKey)

\* PutCommand on a table
Put(store, item) ==
    [k \in DOMAIN store \cup {item.id} |-> IF k = item.id THEN item ELSE store[k]]

\* DeleteCommand without a condition: deleting an absent key changes nothing
Delete(store, id) == [k \in DOMAIN store \ {id} |-> store[k]]

\* findByName of both managers: the query of NameIndex
findByName(store, name) == {k \in DOMAIN store : store[k].name = name}

\* variant: the put is also conditioned on the name being free
PutCondition_UniqueName(store, item) ==
    item.id \notin DOMAIN store /\ findByName(store, item.name) = {}

\* the ConditionExpression of the puts: attribute_not_exists(id)
PutCondition(store, item) == item.id \notin DOMAIN store

\* the processes that passed the name check of a create and did not put yet
InFlight(labels) == Cardinality({q \in Procs : pc[q] \in labels})

\* variant: the pre-check of create finds no record
NameTaken_Never(store, name) == FALSE

\* create of both managers: existing.length > 0
NameTaken(store, name) == findByName(store, name) # {}

\* CategoriesService.create, up to the query of the name
CategoryCreateCheck(p, name) ==
    /\ pc[p] = "idle"
    /\ req' = [req EXCEPT ![p] = [Req("createCategory") EXCEPT !.name = name]]
    /\ IF NameTaken(categories, name)
       THEN Finish(p, Failure("CategoryAlreadyExistsException", "already exists"))
       ELSE /\ uuid.category + InFlight({"category_put"}) < MaxNew
            /\ Await(p, "category_put", <<>>)
    /\ UNCHANGED <<books, outstanding, stores>>

\* CategoriesService.create, the put: the condition attribute_not_exists(id)
\* guards the id that uuidv4 has just produced
CategoryCreatePut(p) ==
    /\ pc[p] = "category_put"
    /\ LET category == NewCategory(uuid.category + 1, req[p].name)
       IN  IF PutCondition(categories, category)
           THEN /\ categories' = Put(categories, category)
                /\ Finish(p, Ok(<<category>>))
           ELSE /\ Finish(p, Failure("CategoryCreateException",
                                     "The conditional request failed"))
                /\ UNCHANGED categories
    /\ uuid' = [uuid EXCEPT !.category = @ + 1]
    /\ UNCHANGED <<books, outstanding, req, authors, blobs>>

\* AuthorsService.create, the check of the picture and the query of the name
AuthorCreateCheck(p, name, picture) ==
    /\ pc[p] = "idle"
    /\ req' = [req EXCEPT ![p] =
                 [Req("createAuthor") EXCEPT !.name = name, !.picture = picture]]
    /\ IF picture = "other"
       THEN Finish(p, Failure("AuthorCreateException",
                              "Profile must be an image file"))
       ELSE IF NameTaken(authors, name)
       THEN Finish(p, Failure("AuthorAlreadyExistsException", "already exists"))
       ELSE /\ uuid.author + InFlight({"author_upload", "author_put"}) < MaxNew
            /\ Await(p, IF picture = "image" THEN "author_upload" ELSE "author_put",
                     <<[profile |-> NoBlob]>>)
    /\ UNCHANGED <<books, outstanding, stores>>

\* AuthorsService.create, the upload of the profile picture, which fails or
\* not; the error of a failed upload is wrapped into AuthorCreateException
AuthorCreateUpload(p, uploaded) ==
    /\ pc[p] = "author_upload"
    /\ IF uploaded
       THEN /\ blobs' = blobs \cup {uuid.blob + 1}
            /\ uuid' = [uuid EXCEPT !.blob = @ + 1]
            /\ Await(p, "author_put", <<[profile |-> uuid.blob + 1]>>)
       ELSE /\ Finish(p, Failure("AuthorCreateException", "Failed to upload file"))
            /\ UNCHANGED <<blobs, uuid>>
    /\ UNCHANGED <<books, outstanding, req, categories, authors>>

\* AuthorsService.create, the put
AuthorCreatePut(p) ==
    /\ pc[p] = "author_put"
    /\ LET author == NewAuthor(uuid.author + 1, req[p].name, snap[p][1].profile)
       IN  IF PutCondition(authors, author)
           THEN /\ authors' = Put(authors, author)
                /\ Finish(p, Ok(<<author>>))
           ELSE /\ Finish(p, Failure("AuthorCreateException",
                                     "The conditional request failed"))
                /\ UNCHANGED authors
    /\ uuid' = [uuid EXCEPT !.author = @ + 1]
    /\ UNCHANGED <<books, outstanding, req, categories, blobs>>

\* findOne of CategoriesService
CategoryFindOne(store, id) ==
    IF id \in DOMAIN store
    THEN Ok(<<store[id]>>)
    ELSE Failure("CategoryNotFoundException", "not found")

\* findOne of AuthorsService
AuthorFindOne(store, id) ==
    IF id \in DOMAIN store
    THEN Ok(<<store[id]>>)
    ELSE Failure("AuthorNotFoundException", "not found")

\* variant: remove does not look at the counter
HasBooks_Never(entity) == FALSE

\* remove of both managers: booksCount > 0
HasBooks(entity) == entity.booksCount > 0

\* CategoriesService.remove, the first findOne
CategoryRemoveFind(p, id) ==
    /\ pc[p] = "idle"
    /\ req' = [req EXCEPT ![p] = [Req("removeCategory") EXCEPT !.id = id]]
    /\ LET r == CategoryFindOne(categories, id)
       IN  IF r.kind = "ok"
           THEN Await(p, "category_remove_check", r.books)
           ELSE Finish(p, r)
    /\ UNCHANGED <<books, outstanding, stores>>

\* CategoriesService.remove, the second findOne and the check of the
\* counter: the HttpException with status CONFLICT is thrown inside the
\* try block, and the catch block wraps every error that is not a
\* CategoryNotFoundException into CategoryDeleteException
CategoryRemoveCheck(p) ==
    /\ pc[p] = "category_remove_check"
    /\ LET r == CategoryFindOne(categories, req[p].id)
       IN  IF r.kind # "ok"
           THEN Finish(p, r)
           ELSE IF HasBooks(r.books[1])
           THEN Finish(p, Failure("CategoryDeleteException",
                                  "Cannot delete category with existing books"))
           ELSE Await(p, "category_delete", r.books)
    /\ UNCHANGED <<books, outstanding, req, stores>>

\* CategoriesService.remove, the delete
CategoryRemoveDelete(p) ==
    /\ pc[p] = "category_delete"
    /\ categories' = Delete(categories, req[p].id)
    /\ Finish(p, Response("ok", "Category has been successfully deleted", <<>>, NoKey))
    /\ UNCHANGED <<books, outstanding, req, authors, blobs, uuid>>

\* AuthorsService.remove, the findOne and the check of the counter: the
\* AuthorDeleteException is thrown inside the try block and wrapped again
AuthorRemoveFind(p, id) ==
    /\ pc[p] = "idle"
    /\ req' = [req EXCEPT ![p] = [Req("removeAuthor") EXCEPT !.id = id]]
    /\ LET r == AuthorFindOne(authors, id)
       IN  IF r.kind # "ok"
           THEN Finish(p, r)
           ELSE IF HasBooks(r.books[1])
           THEN Finish(p, Failure("AuthorDeleteException",
                                  "Cannot delete author with existing books"))
           ELSE Await(p, "author_delete", r.books)
    /\ UNCHANGED <<books, outstanding, stores>>

\* AuthorsService.remove, the delete
AuthorRemoveDelete(p) ==
    /\ pc[p] = "author_delete"
    /\ authors' = Delete(authors, req[p].id)
    /\ Finish(p, Response("ok", "Author has been successfully deleted", <<>>, NoKey))
    /\ UNCHANGED <<books, outstanding, req, categories, blobs, uuid>>

\* an item that has no booksCount attribute
NoCount == -1

\* variant: the update creates the counter of a missing record
CanIncrement_Upsert(store, id) == TRUE

\* the update SET booksCount = booksCount + :inc; on a missing record the
\* expression refers to an attribute that does not exist, and the update fails
CanIncrement(store, id) == id \in DOMAIN store /\ store[id].booksCount # NoCount

Increment(store, id) == [store EXCEPT ![id].booksCount = @ + 1]

\* variant: the decrement is conditioned on the existence of the record only
CanDecrement_Exists(store, id) == id \in DOMAIN store

\* the ConditionExpression of the decrement: booksCount > :zero
CanDecrement(store, id) == id \in DOMAIN store /\ store[id].booksCount > 0

Decrement(store, id) == [store EXCEPT ![id].booksCount = @ - 1]

\* CategoriesService.incrementBooksCount
CategoryIncrementBooksCount(p, id) ==
    /\ pc[p] = "idle"
    /\ id \in DOMAIN categories => categories[id].booksCount < MaxCount
    /\ req' = [req EXCEPT ![p] = [Req("incrementCategory") EXCEPT !.id = id]]
    /\ IF CanIncrement(categories, id)
       THEN /\ categories' = Increment(categories, id)
            /\ Finish(p, Ok(<<>>))
       ELSE /\ Finish(p, Failure("CategoryUpdateException", "invalid update"))
            /\ UNCHANGED categories
    /\ UNCHANGED <<books, outstanding, authors, blobs, uuid>>

\* CategoriesService.decrementBooksCount: a failed condition is thrown as
\* an HttpException with status BAD_REQUEST
CategoryDecrementBooksCount(p, id) ==
    /\ pc[p] = "idle"
    /\ req' = [req EXCEPT ![p] = [Req("decrementCategory") EXCEPT !.id = id]]
    /\ IF CanDecrement(categories, id)
       THEN /\ categories' = Decrement(categories, id)
            /\ Finish(p, Ok(<<>>))
       ELSE /\ Finish(p, Failure("BadRequest", "Books count cannot be negative"))
            /\ UNCHANGED categories
    /\ UNCHANGED <<books, outstanding, authors, blobs, uuid>>

\* AuthorsService.incrementBooksCount
AuthorIncrementBooksCount(p, id) ==
    /\ pc[p] = "idle"
    /\ id \in DOMAIN authors => authors[id].booksCount < MaxCount
    /\ req' = [req EXCEPT ![p] = [Req("incrementAuthor") EXCEPT !.id = id]]
    /\ IF CanIncrement(authors, id)
       THEN /\ authors' = Increment(authors, id)
            /\ Finish(p, Ok(<<>>))
       ELSE /\ Finish(p, Failure("AuthorUpdateException", "invalid update"))
            /\ UNCHANGED authors
    /\ UNCHANGED <<books, outstanding, categories, blobs, uuid>>

\* AuthorsService.decrementBooksCount: every error is wrapped into
\* AuthorUpdateException
AuthorDecrementBooksCount(p, id) ==
    /\ pc[p] = "idle"
    /\ req' = [req EXCEPT ![p] = [Req("decrementAuthor") EXCEPT !.id = id]]
    /\ IF CanDecrement(authors, id)
       THEN /\ authors' = Decrement(authors, id)
            /\ Finish(p, Ok(<<>>))
       ELSE /\ Finish(p, Failure("AuthorUpdateException",
                                 "The conditional request failed"))
            /\ UNCHANGED authors
    /\ UNCHANGED <<books, outstanding, categories, blobs, uuid>>

\* ------------------------------------------- update of the two managers
\* a dto that carries no name
NoName == ""
\* variant: the record the query returned is never taken for another one
NameClash_Never(first, id) == FALSE

\* update of CategoriesService: existingCategories.categories[0].id !== id
NameClash(first, id) == first # id

\* the UpdateCommand of CategoriesService.update sets the name, when the
\* dto has one, and has no ConditionExpression: on an absent key it creates
\* an item with the key and the attributes set
CategoryUpdateItem(store, id, name) ==
    LET stored == IF id \in DOMAIN store
                  THEN store[id]
                  ELSE [ id |-> id, name |-> NoName, booksCount |-> NoCount ]
    IN  Put(store, IF name = NoName THEN stored ELSE [stored EXCEPT !.name = name])

\* CategoriesService.update, the findOne
CategoryUpdateFind(p, id, name) ==
    /\ pc[p] = "idle"
    /\ req' = [req EXCEPT ![p] =
                 [Req("updateCategory") EXCEPT !.id = id, !.name = name]]
    /\ LET r == CategoryFindOne(categories, id)
       IN  IF r.kind # "ok"
           THEN Finish(p, r)
           ELSE IF name # NoName
           THEN Await(p, "category_update_check", r.books)
           ELSE Await(p, "category_update_write", r.books)
    /\ UNCHANGED <<books, outstanding, stores>>

\* CategoriesService.update, the query of the name with Limit 1: first is
\* the record the query returns, NoKey when it returns none
CategoryUpdateCheck(p, first) ==
    /\ pc[p] = "category_update_check"
    /\ LET existing == findByName(categories, req[p].name)
       IN  /\ first \in existing \cup {NoKey}
           /\ first = NoKey <=> existing = {}
           /\ IF first # NoKey /\ NameClash(first, req[p].id)
              THEN Finish(p, Failure("CategoryAlreadyExistsException", "already exists"))
              ELSE Await(p, "category_update_write", snap[p])
    /\ UNCHANGED <<books, outstanding, req, stores>>

\* CategoriesService.update, the update
CategoryUpdateWrite(p) ==
    /\ pc[p] = "category_update_write"
    /\ categories' = CategoryUpdateItem(categories, req[p].id, req[p].name)
    /\ Finish(p, Ok(<<categories'[req[p].id]>>))
    /\ UNCHANGED <<books, outstanding, req, authors, blobs, uuid>>

\* the UpdateCommand of AuthorsService.update sets the fields of the dto,
\* and the profile when a picture was uploaded, and has no
\* ConditionExpression
AuthorUpdateItem(store, id, name, profileUrl) ==
    LET stored == IF id \in DOMAIN store
                  THEN store[id]
                  ELSE [ id |-> id, name |-> NoName, profile |-> NoBlob,
                         booksCount |-> NoCount ]
    IN  Put(store,
            [stored EXCEPT !.name = IF name = NoName THEN @ ELSE name,
                           !.profile = IF profileUrl = NoBlob THEN @ ELSE profileUrl])

\* AuthorsService.update, the check of the picture and the findOne
AuthorUpdateFind(p, id, name, picture) ==
    /\ pc[p] = "idle"
    /\ picture = "image" => uuid.blob < MaxUploads
    /\ req' = [req EXCEPT ![p] =
                 [Req("updateAuthor") EXCEPT !.id = id, !.name = name,
                                             !.picture = picture]]
    /\ IF picture = "other"
       THEN Finish(p, Failure("AuthorUpdateException", "Profile must be an image file"))
       ELSE LET r == AuthorFindOne(authors, id)
            IN  IF r.kind # "ok"
                THEN Finish(p, r)
                ELSE Await(p, IF name # NoName /\ name # r.books[1].name
                              THEN "author_update_check"
                              ELSE IF picture = "image"
                              THEN "author_update_upload"
                              ELSE "author_update_write",
                           r.books \o <<[profile |-> NoBlob]>>)
    /\ UNCHANGED <<books, outstanding, stores>>

\* AuthorsService.update, the query of the name
AuthorUpdateCheck(p) ==
    /\ pc[p] = "author_update_check"
    /\ IF NameTaken(authors, req[p].name)
       THEN Finish(p, Failure("AuthorAlreadyExistsException", "already exists"))
       ELSE Await(p, IF req[p].picture = "image"
                     THEN "author_update_upload"
                     ELSE "author_update_write",
                  snap[p])
    /\ UNCHANGED <<books, outstanding, req, stores>>

\* AuthorsService.update, the upload of the profile picture, which fails or
\* not; the error of a failed upload is wrapped into AuthorUpdateException
AuthorUpdateUpload(p, uploaded) ==
    /\ pc[p] = "author_update_upload"
    /\ IF uploaded
       THEN /\ blobs' = blobs \cup {uuid.blob + 1}
            /\ uuid' = [uuid EXCEPT !.blob = @ + 1]
            /\ Await(p, "author_update_write",
                     <<snap[p][1], [profile |-> uuid.blob + 1]>>)
       ELSE /\ Finish(p, Failure("AuthorUpdateException", "Failed to upload file"))
            /\ UNCHANGED <<blobs, uuid>>
    /\ UNCHANGED <<books, outstanding, req, categories, authors>>

\* AuthorsService.update, the update of the record
AuthorUpdateWrite(p) ==
    /\ pc[p] = "author_update_write"
    /\ authors' = AuthorUpdateItem(authors, req[p].id, req[p].name, snap[p][2].profile)
    /\ Finish(p, Ok(<<authors'[req[p].id]>>))
    /\ UNCHANGED <<books, outstanding, req, categories, blobs, uuid>>

\* ------------------------------------------------------ the specifications

\* a step of a borrow or of a returnBook of process p on a book of ids,
\* with the dates of a pair of dates
Loans(p, ids, dates) ==
    \/ \E id \in ids, u \in Users : BorrowFind(p, id, u)
    \/ \E d \in dates : BorrowCheck(p, d[1], d[2])
    \/ BorrowWrite(p)
    \/ \E id \in ids, u \in Users : ReturnBook(p, id, u)

\* a step of a remove of process p on a book of ids
Removal(p, ids, outcomes) ==
    \/ \E id \in ids : RemoveFind(p, id)
    \/ \E deleted \in outcomes : RemoveCover(p, deleted)
    \/ \E deleted \in outcomes : RemovePdf(p, deleted)
    \/ RemoveDelete(p)

Readers(p) ==
    \/ \E id \in RequestIds : FindOne(p, id)
    \/ \E l \in {1, NumBooks}, k \in BookIds \cup {NoKey} : FindAll(p, l, k)
    \/ \E c \in Categories, l \in {1, NumBooks} : FindByCategory(p, c, l)
    \/ \E a \in Authors : FindByAuthor(p, a)
    \/ \E r \in {4, 5} : FindByRating(p, r)
    \/ \E t \in TitleInputs : FindByTitle(p, t)
    \/ \E u \in Users : FindBorrowedBooksByUser(p, u)

\* one request at a time
Next == \E p \in SeqProcs : Loans(p, RequestIds, DatePairs) \/ Readers(p) \/ Reply(p)

Spec == Init /\ [][Next]_vars

\* the requests of all processes on one book, interleaved at their awaits
NextConc ==
    \E p \in Procs :
        \/ Loans(p, ConcIds,
                 {d \in DatePairs : d[1] = Now /\ d[2] <= Now + MAX_BORROW_DAYS * DayLen})
        \/ Removal(p, ConcIds, {TRUE})
        \/ Reply(p)

SpecConc == Init /\ [][NextConc]_vars

\* --------------------------------------- BooksService, create and update

\* the CreateBookDto of a create request
CreateBookDto(r) ==
    [ title |-> TitleA, authorId |-> r.authorId, categoryId |-> r.categoryId,
      isbn |-> r.isbn, quantity |-> 1 ]

\* BooksService.create, the check of the attachments and the upload of the
\* cover, which fails or not; the isbn of the request is not looked up, and
\* the error of a failed upload is rethrown as it is
BookCreateUpload(p, isbn, categoryId, authorId, cover, pdf, uploaded) ==
    /\ pc[p] = "idle"
    /\ req' = [req EXCEPT ![p] =
                 [Req("createBook") EXCEPT !.isbn = isbn, !.categoryId = categoryId,
                                           !.authorId = authorId,
                                           !.cover = cover, !.pdf = pdf]]
    /\ IF ~cover \/ ~pdf
       THEN /\ Finish(p, Failure("Error", "Both cover and PDF files are required"))
            /\ UNCHANGED <<blobs, uuid>>
       ELSE IF uploaded
       THEN /\ uuid.book + InFlight({"book_pdf", "book_put"}) < MaxNew
            /\ uuid.blob + InFlight({"book_pdf"}) + 2 <= 2 * MaxNew + MaxUploads
            /\ blobs' = blobs \cup {uuid.blob + 1}
            /\ uuid' = [uuid EXCEPT !.blob = @ + 1]
            /\ Await(p, "book_pdf", <<[cover |-> uuid.blob + 1, pdf |-> NoBlob]>>)
       ELSE /\ Finish(p, Failure("InternalServerError", "Failed to upload file"))
            /\ UNCHANGED <<blobs, uuid>>
    /\ UNCHANGED <<books, outstanding, categories, authors>>

\* BooksService.create, the upload of the pdf, which fails or not; the
\* error of a failed upload is rethrown as it is
BookCreatePdf(p, uploaded) ==
    /\ pc[p] = "book_pdf"
    /\ IF uploaded
       THEN /\ blobs' = blobs \cup {uuid.blob + 1}
            /\ uuid' = [uuid EXCEPT !.blob = @ + 1]
            /\ Await(p, "book_put", <<[snap[p][1] EXCEPT !.pdf = uuid.blob + 1]>>)
       ELSE /\ Finish(p, Failure("InternalServerError", "Failed to upload file"))
            /\ UNCHANGED <<blobs, uuid>>
    /\ UNCHANGED <<books, outstanding, req, categories, authors>>

\* BooksService.create, the put of the record
BookCreatePut(p) ==
    /\ pc[p] = "book_put"
    /\ LET book == NewBook(uuid.book + 1, CreateBookDto(req[p]),
                           snap[p][1].cover, snap[p][1].pdf)
       IN  IF PutCondition(books, book)
           THEN /\ books' = Put(books, book)
                /\ Await(p, "book_category", <<book>>)
           ELSE /\ Finish(p, Failure("ConditionalCheckFailedException",
                                     "The conditional request failed"))
                /\ UNCHANGED books
    /\ uuid' = [uuid EXCEPT !.book = @ + 1]
    /\ UNCHANGED <<outstanding, req, categories, authors, blobs>>

\* BooksService.create, addBookToCategory: the error of the increment is
\* wrapped twice into CategoryUpdateException and rethrown by create
BookCreateCategory(p) ==
    /\ pc[p] = "book_category"
    /\ IF CanIncrement(categories, req[p].categoryId)
       THEN /\ categories' = Increment(categories, req[p].categoryId)
            /\ Await(p, "book_author", snap[p])
       ELSE /\ Finish(p, Failure("CategoryUpdateException", "invalid update"))
            /\ UNCHANGED categories
    /\ UNCHANGED <<books, outstanding, req, authors, blobs, uuid>>

\* BooksService.create, addBookToAuthor, and the return of the record
BookCreateAuthor(p) ==
    /\ pc[p] = "book_author"
    /\ IF CanIncrement(authors, req[p].authorId)
       THEN /\ authors' = Increment(authors, req[p].authorId)
            /\ Finish(p, Ok(snap[p]))
       ELSE /\ Finish(p, Failure("AuthorUpdateException", "invalid update"))
            /\ UNCHANGED authors
    /\ UNCHANGED <<books, outstanding, req, categories, blobs, uuid>>

\* the UpdateBookDto of the update requests: no entry, a quantity, an id
\* with a title, a status with a borrower, a cover, a null borrower and an
\* empty title
UpdateDtos ==
    { EmptyTable,
      [quantity |-> 0],
      [id |-> NumBooks + 1, title |-> <<"z">>],
      [status |-> BORROWED, borrowerId |-> 1],
      [cover |-> CoverOf(2)],
      [borrowerId |-> NoUser],
      [title |-> <<>>] }

\* BooksService.update, the findOne; the error of findOne is rethrown as
\* it is.  The second element of the snapshot is the patch of the update.
UpdateFind(p, id, dto, cover, pdf) ==
    /\ pc[p] = "idle"
    /\ uuid.blob + (IF cover THEN 1 ELSE 0) + (IF pdf THEN 1 ELSE 0)
          <= 2 * NumBooks + MaxUploads
    /\ req' = [req EXCEPT ![p] =
                 [Req("update") EXCEPT !.id = id, !.dto = dto,
                                       !.cover = cover, !.pdf = pdf]]
    /\ LET r == findOne(books, id)
       IN  IF r.kind = "ok"
           THEN Await(p, IF cover THEN "update_cover"
                         ELSE IF pdf THEN "update_pdf" ELSE "update_write",
                      r.books \o <<[cover |-> NoBlob, pdf |-> NoBlob]>>)
           ELSE Finish(p, r)
    /\ UNCHANGED <<books, outstanding, stores>>

\* BooksService.update, the upload of the new cover, which fails or not
UpdateCover(p, uploaded) ==
    /\ pc[p] = "update_cover"
    /\ IF uploaded
       THEN /\ blobs' = blobs \cup {uuid.blob + 1}
            /\ uuid' = [uuid EXCEPT !.blob = @ + 1]
            /\ Await(p, IF snap[p][1].cover # NoBlob THEN "update_cover_delete"
                         ELSE IF req[p].pdf THEN "update_pdf" ELSE "update_write",
                     <<snap[p][1], [snap[p][2] EXCEPT !.cover = uuid.blob + 1]>>)
       ELSE /\ Finish(p, Failure("InternalServerError", "Failed to upload file"))
            /\ UNCHANGED <<blobs, uuid>>
    /\ UNCHANGED <<books, outstanding, req, categories, authors>>

\* BooksService.update, the delete of the cover of the record read, after
\* the upload of the new one; deleted tells whether the bucket obeys
UpdateCoverDelete(p, deleted) ==
    /\ pc[p] = "update_cover_delete"
    /\ IF deleted
       THEN /\ blobs' = deleteFile(blobs, snap[p][1].cover)
            /\ Await(p, IF req[p].pdf THEN "update_pdf" ELSE "update_write", snap[p])
       ELSE /\ Finish(p, DeleteFileFailed)
            /\ UNCHANGED blobs
    /\ UNCHANGED <<books, outstanding, req, categories, authors, uuid>>

\* BooksService.update, the upload of the new pdf, which fails or not
UpdatePdf(p, uploaded) ==
    /\ pc[p] = "update_pdf"
    /\ IF uploaded
       THEN /\ blobs' = blobs \cup {uuid.blob + 1}
            /\ uuid' = [uuid EXCEPT !.blob = @ + 1]
            /\ Await(p, IF snap[p][1].pdf # NoBlob THEN "update_pdf_delete"
                         ELSE "update_write",
                     <<snap[p][1], [snap[p][2] EXCEPT !.pdf = uuid.blob + 1]>>)
       ELSE /\ Finish(p, Failure("InternalServerError", "Failed to upload file"))
            /\ UNCHANGED <<blobs, uuid>>
    /\ UNCHANGED <<books, outstanding, req, categories, authors>>

\* BooksService.update, the delete of the pdf of the record read, after
\* the upload of the new one; deleted tells whether the bucket obeys
UpdatePdfDelete(p, deleted) ==
    /\ pc[p] = "update_pdf_delete"
    /\ IF deleted
       THEN /\ blobs' = deleteFile(blobs, snap[p][1].pdf)
            /\ Await(p, "update_write", snap[p])
       ELSE /\ Finish(p, DeleteFileFailed)
            /\ UNCHANGED blobs
    /\ UNCHANGED <<books, outstanding, req, categories, authors, uuid>>

\* update: the ExpressionAttributeNames of the UpdateCommand, #cover and
\* #pdf for the files uploaded and one name for every entry of the dto
\* but id, createdAt and updatedAt
ExpressionAttributeNames(patch, dto) ==
    {k \in {"cover"} : patch.cover # NoBlob}
       \cup {k \in {"pdf"} : patch.pdf # NoBlob}
       \cup (DOMAIN dto \ {"id", "createdAt", "updatedAt"})

\* update: the SET expression applied to the stored record; an entry of
\* the dto whose key the record does not have adds the attribute
BookUpdate(stored, patch, dto) ==
    [k \in DOMAIN stored \cup (DOMAIN dto \ {"id", "createdAt", "updatedAt"}) |->
        IF k \in DOMAIN dto \ {"id", "createdAt", "updatedAt"} THEN dto[k]
        ELSE IF k = "cover" /\ patch.cover # NoBlob THEN patch.cover
        ELSE IF k = "pdf" /\ patch.pdf # NoBlob THEN patch.pdf
        ELSE stored[k]]

\* BooksService.update, the update of the record, conditioned on
\* attribute_exists(id); the store rejects an UpdateCommand whose
\* ExpressionAttributeNames is empty, whose SET expression names a path
\* twice (the cover or the pdf both uploaded and an entry of the dto) or
\* which sets the key of an index to null or to the empty string, and
\* every error is rethrown as it is
UpdateWrite(p) ==
    /\ pc[p] = "update_write"
    /\ IF ExpressionAttributeNames(snap[p][2], req[p].dto) = {}
       THEN /\ Finish(p, Failure("ValidationException",
                                 "ExpressionAttributeNames must not be empty"))
            /\ UNCHANGED books
       ELSE IF \E k \in {"cover", "pdf"} \cap DOMAIN req[p].dto : snap[p][2][k] # NoBlob
       THEN /\ Finish(p, Failure("ValidationException",
                                 "Two document paths overlap with each other"))
            /\ UNCHANGED books
       ELSE IF ~IndexKeysAccepted([k \in DOMAIN req[p].dto
                                         \ {"id", "createdAt", "updatedAt"} |->
                                     req[p].dto[k]])
       THEN /\ Finish(p, Failure("ValidationException",
                                 "Type mismatch for Index Key"))
            /\ UNCHANGED books
       ELSE IF UpdateCondition(books, req[p].id, snap[p][1])
       THEN /\ books' = [books EXCEPT ![req[p].id] =
                           BookUpdate(books[req[p].id], snap[p][2], req[p].dto)]
            /\ Finish(p, Ok(<<books'[req[p].id]>>))
       ELSE /\ Finish(p, Failure("ConditionalCheckFailedException",
                                 "The conditional request failed"))
            /\ UNCHANGED books
    /\ UNCHANGED <<outstanding, req, stores>>

\* ------------------------------------- the specifications of the managers

\* the tables and the blob store are empty
InitNamed ==
    /\ books = EmptyTable
    /\ categories = EmptyTable
    /\ authors = EmptyTable
    /\ blobs = {}
    /\ uuid = [category |-> 0, author |-> 0, book |-> 0, blob |-> 0]
    /\ InitProcs

CategoryCreates(p, names) ==
    \/ \E n \in names : CategoryCreateCheck(p, n)
    \/ CategoryCreatePut(p)

CategoryRemoves(p, ids) ==
    \/ \E id \in ids : CategoryRemoveFind(p, id)
    \/ CategoryRemoveCheck(p)
    \/ CategoryRemoveDelete(p)

CategoryCounters(p, ids) ==
    \/ \E id \in ids : CategoryIncrementBooksCount(p, id)
    \/ \E id \in ids : CategoryDecrementBooksCount(p, id)

AuthorCreates(p, names, pictures) ==
    \/ \E n \in names, f \in pictures : AuthorCreateCheck(p, n, f)
    \/ \E uploaded \in BOOLEAN : AuthorCreateUpload(p, uploaded)
    \/ AuthorCreatePut(p)

AuthorRemoves(p, ids) ==
    \/ \E id \in ids : AuthorRemoveFind(p, id)
    \/ AuthorRemoveDelete(p)

CategoryUpdates(p, ids, names) ==
    \/ \E id \in ids, n \in names : CategoryUpdateFind(p, id, n)
    \/ \E first \in ids \cup {NoKey} : CategoryUpdateCheck(p, first)
    \/ CategoryUpdateWrite(p)

AuthorUpdates(p, ids, names, pictures) ==
    \/ \E id \in ids, n \in names, f \in pictures : AuthorUpdateFind(p, id, n, f)
    \/ AuthorUpdateCheck(p)
    \/ \E uploaded \in BOOLEAN : AuthorUpdateUpload(p, uploaded)
    \/ AuthorUpdateWrite(p)

AuthorCounters(p, ids) ==
    \/ \E id \in ids : AuthorIncrementBooksCount(p, id)
    \/ \E id \in ids : AuthorDecrementBooksCount(p, id)

\* a behaviour of these specifications runs the requests of one manager:
\* the two managers share no record
CategoriesUntouched ==
    /\ uuid.category = 0
    /\ \A q \in Procs : pc[q] \notin {"category_put", "category_remove_check",
                                       "category_delete"}

AuthorsUntouched ==
    /\ uuid.author = 0
    /\ \A q \in Procs : pc[q] \notin {"author_upload", "author_put", "author_delete"}

\* one request at a time on a manager
NextNamed ==
    \E p \in SeqProcs :
        \/ AuthorsUntouched /\ CategoryCreates(p, Names)
        \/ AuthorsUntouched /\ CategoryRemoves(p, EntityIds)
        \/ AuthorsUntouched /\ CategoryCounters(p, EntityIds)
        \/ AuthorsUntouched /\ CategoryUpdates(p, EntityIds, Names \cup {NoName})
        \/ CategoriesUntouched /\ AuthorUpdates(p, EntityIds, Names \cup {NoName}, Pictures)
        \/ CategoriesUntouched /\ AuthorCreates(p, Names, Pictures)
        \/ CategoriesUntouched /\ AuthorRemoves(p, EntityIds)
        \/ CategoriesUntouched /\ AuthorCounters(p, EntityIds)
        \/ Reply(p)

SpecNamed == InitNamed /\ [][NextNamed]_vars

\* the create and the counter requests of all processes on a manager,
\* interleaved at their awaits; the counter requests are on record 1
NextNamedConc ==
    \E p \in Procs :
        \/ AuthorsUntouched /\ CategoryCreates(p, ConcNames)
        \/ AuthorsUntouched /\ CategoryCounters(p, {1})
        \/ CategoriesUntouched /\ AuthorCreates(p, ConcNames, {"none", "image"})
        \/ CategoriesUntouched /\ AuthorCounters(p, {1})
        \/ Reply(p)

SpecNamedConc == InitNamed /\ [][NextNamedConc]_vars

\* ---------------------------------- the specifications of the catalogue
\* one category and one author were created; there is no book
InitCatalog ==
    /\ books = EmptyTable
    /\ categories = [c \in {1} |-> NewCategory(c, "n1")]
    /\ authors = [a \in {1} |-> NewAuthor(a, "n1", NoBlob)]
    /\ blobs = {}
    /\ uuid = [category |-> 1, author |-> 1, book |-> 0, blob |-> 0]
    /\ InitProcs

\* the ids of the categories and authors of the create requests: the one
\* that exists and one that does not
RefIds == {1, 2}
ConcRefIds == {e \in RefIds : e = 1}

BookCreates(p, isbns, refs, files) ==
    \/ \E i \in isbns, c \in refs, a \in refs, f \in files, uploaded \in BOOLEAN :
          BookCreateUpload(p, i, c, a, f[1], f[2], uploaded)
    \/ \E uploaded \in BOOLEAN : BookCreatePdf(p, uploaded)
    \/ BookCreatePut(p)
    \/ BookCreateCategory(p)
    \/ BookCreateAuthor(p)

\* the creations and the removals of books, one request at a time
NextCatalog ==
    \E p \in SeqProcs :
        \/ BookCreates(p, {1, 2}, RefIds, {<<TRUE, TRUE>>, <<TRUE, FALSE>>})
        \/ Removal(p, EntityIds, BOOLEAN)
        \/ Reply(p)

SpecCatalog == InitCatalog /\ [][NextCatalog]_vars

\* the creations of books, all with isbn 1, and the removals of their
\* category and author, interleaved at their awaits
NextCatalogConc ==
    \E p \in Procs :
        \/ BookCreates(p, {1}, ConcRefIds, {<<TRUE, TRUE>>})
        \/ CategoryRemoves(p, ConcRefIds)
        \/ AuthorRemoves(p, ConcRefIds)
        \/ Reply(p)

SpecCatalogConc == InitCatalog /\ [][NextCatalogConc]_vars

\* the updates of the attachments of the books of the catalogue, one
\* request at a time
Updates(p, ids) ==
    \/ \E id \in ids, dto \in UpdateDtos, cover \in BOOLEAN, pdf \in BOOLEAN :
          UpdateFind(p, id, dto, cover, pdf)
    \/ \E uploaded \in BOOLEAN : UpdateCover(p, uploaded)
    \/ \E deleted \in BOOLEAN : UpdateCoverDelete(p, deleted)
    \/ \E uploaded \in BOOLEAN : UpdatePdf(p, uploaded)
    \/ \E deleted \in BOOLEAN : UpdatePdfDelete(p, deleted)
    \/ UpdateWrite(p)

\* the updates of book 1 and of a book that does not exist
NextAssets == \E p \in SeqProcs : Updates(p, {1, NumBooks + 1}) \/ Reply(p)

SpecAssets == Init /\ [][NextAssets]_vars

\* --------------------------- the specification of the races with remove
\* the updates and the removals of all processes on the category or the
\* author that exists, interleaved at their awaits; a behaviour runs the
\* requests of one manager: the table of the other one stays as it is
NextRaces ==
    \E p \in Procs :
        \/ /\ authors = [a \in {1} |-> NewAuthor(a, "n1", NoBlob)]
           /\ \A q \in Procs : req[q].op \notin {"updateAuthor", "removeAuthor"}
           /\ \/ CategoryUpdates(p, ConcRefIds, Names \cup {NoName})
              \/ CategoryRemoves(p, ConcRefIds)
        \/ /\ categories = [c \in {1} |-> NewCategory(c, "n1")]
           /\ \A q \in Procs : req[q].op \notin {"updateCategory", "removeCategory"}
           /\ \/ AuthorUpdates(p, ConcRefIds, Names \cup {NoName}, {"none", "image"})
              \/ AuthorRemoves(p, ConcRefIds)
        \/ Reply(p)

SpecRaces == InitCatalog /\ [][NextRaces]_vars

\* ------------------------------------------ the specification of search
\* the titles of the books the queries are run on, and the queries
SearchTitles == { <<"b">>, <<"A", " ", "b">>, <<"a">>, <<"a", " ", "b">>, <<"c">> }
Queries == { <<"a">>, <<"A", " ", "b">>, <<" ", "b", " ", " ", "a">>,
             <<"b", " ", "b">>, <<"c">>, <<" ">> }

\* the books of the catalogue were created with any of the titles; a
\* created book has no author attribute
InitSearch ==
    /\ \E t \in [BookIds -> SearchTitles] :
          books = [b \in BookIds |->
                     NewBook(b, [CatalogueDto(b) EXCEPT !.title = t[b]],
                             CoverOf(b), PdfOf(b))]
    /\ categories =
         [c \in Categories |->
            [NewCategory(c, IF c = 1 THEN "c1" ELSE "c2") EXCEPT !.booksCount =
                Cardinality({b \in BookIds : CategoryOf(b) = c})]]
    /\ authors =
         [a \in Authors |->
            [NewAuthor(a, IF a = 1 THEN "a1" ELSE "a2", NoBlob) EXCEPT !.booksCount =
                Cardinality({b \in BookIds : AuthorOf(b) = a})]]
    /\ blobs = {CoverOf(b) : b \in BookIds} \cup {PdfOf(b) : b \in BookIds}
    /\ uuid = [ category |-> Cardinality(Categories), author |-> Cardinality(Authors),
                book |-> NumBooks, blob |-> 2 * NumBooks ]
    /\ InitProcs

\* the searches, and the updates that write an author attribute to the
\* first two books, one request at a time
NextSearch ==
    \E p \in SeqProcs :
        \/ \E q \in Queries : Search(p, q)
        \/ \E id \in {1, 2}, a \in {<<"b">>, <<"A">>} :
              UpdateFind(p, id, [author |-> a], FALSE, FALSE)
        \/ UpdateWrite(p)
        \/ Reply(p)

SpecSearch == InitSearch /\ [][NextSearch]_vars

TypeOK ==
    /\ \A b \in DOMAIN books : books[b].quantity \in Int
    /\ \A p \in Procs : pc[p] \in {"idle", "borrow_scan", "borrow_write",
                                   "return_write", "remove_cover", "remove_pdf",
                                   "remove_delete", "done",
                                   "category_put", "category_remove_check",
                                   "category_delete", "author_upload", "author_put",
                                   "author_delete", "book_pdf", "book_put",
                                   "book_category", "book_author",
                                   "update_cover", "update_cover_delete",
                                   "update_pdf", "update_pdf_delete", "update_write",
                                   "category_update_check", "category_update_write",
                                   "author_update_check", "author_update_upload",
                                   "author_update_write"}
    /\ \A c \in DOMAIN categories : categories[c].booksCount \in Int
    /\ \A a \in DOMAIN authors : authors[a].booksCount \in Int

\* ------------------------------------------------------------ the claims
\* the books persisted as borrowed by user u
BorrowedBy(u) ==
    {b \in DOMAIN books : books[b].borrowerId = u /\ books[b].status = BORROWED}

\* process p leaves the check step of borrow in this step
LeavesBorrowCheck(p) == pc[p] = "borrow_scan" /\ pc'[p] # "borrow_scan"

\* process p completes, in this step, a request it started from idle
CompletesAtOnce(p, ops) ==
    /\ pc[p] = "idle" /\ pc'[p] = "done"
    /\ req'[p].op \in ops

LimitMsg == "You cannot borrow more than 3 books at a time. Please return some books first."
UnavailableMsg == "Book is not available for borrowing"

\* C1: returnBook(id, U) on a book persisted as BORROWED by U (the state a
\* successful borrow(id, U) leaves) passes the checks of returnBook, and
\* its write leaves quantity + 1, no borrower and status AVAILABLE.
C1_ReturnByBorrowerSucceeds ==
    [][\A p \in Procs :
          /\ ( /\ pc[p] = "idle" /\ req'[p].op = "returnBook"
               /\ req'[p].id \in DOMAIN books
               /\ books[req'[p].id].status = BORROWED
               /\ books[req'[p].id].borrowerId = req'[p].user )
             => pc'[p] = "return_write"
          /\ ( pc[p] = "return_write" /\ pc'[p] = "done" /\ req[p].id \in DOMAIN books )
             => /\ resp'[p].kind = "ok"
                /\ books'[req[p].id] =
                     [books[req[p].id] EXCEPT !.quantity = snap[p][1].quantity + 1,
                                              !.borrowerId = NoUser,
                                              !.status = AVAILABLE]
      ]_vars

\* C2: the write of a borrow that passed the checks sets, while the record
\* exists, quantity to the quantity read minus 1, status BORROWED, the
\* borrower and the two dates, changes nothing else, and the response is
\* the record as written.
C2_BorrowWritesAndReturnsRecord ==
    [][\A p \in Procs :
          ( pc[p] = "borrow_write" /\ pc'[p] = "done" /\ req[p].id \in DOMAIN books )
          => /\ books' = [books EXCEPT ![req[p].id] =
                            [@ EXCEPT !.quantity = snap[p][1].quantity - 1,
                                      !.status = BORROWED,
                                      !.borrowerId = req[p].user,
                                      !.startDate = req[p].startDate,
                                      !.returnDate = req[p].returnDate]]
             /\ resp'[p].kind = "ok"
             /\ resp'[p].books = <<books'[req[p].id]>>
             /\ resp'[p].books[1].status = BORROWED
      ]_vars

\* a completed borrow returned the record with status BORROWED and
\* quantity 0, for which a reader would compute UNAVAILABLE
C2_Witness ==
    \E p \in Procs :
        /\ pc[p] = "done" /\ req[p].op = "borrow" /\ resp[p].kind = "ok"
        /\ resp[p].books[1].status = BORROWED
        /\ resp[p].books[1].quantity = 0
        /\ resp[p].books[1].borrowerId = req[p].user
        /\ resp[p].books[1].returnDate = req[p].returnDate
        /\ books[req[p].id] = resp[p].books[1]

\* C3: a borrow of a further book by a user with 3 (or more) books
\* persisted as borrowed ends with the borrow-limit error, whatever the
\* quantity of the book, and changes no record.
C3_BorrowLimitRejects ==
    [][\A p \in Procs :
          ( /\ LeavesBorrowCheck(p)
            /\ Cardinality(BorrowedBy(req[p].user)) >= MAX_BORROWED_BOOKS
            /\ req[p].id \notin BorrowedBy(req[p].user) )
          => /\ resp'[p] = BadRequest(LimitMsg)
             /\ pc'[p] = "done"
             /\ books' = books
      ]_vars

\* a user holding 3 books got the limit error on a book of quantity 0
C3_Witness ==
    \E p \in Procs :
        /\ pc[p] = "done" /\ req[p].op = "borrow"
        /\ resp[p] = BadRequest(LimitMsg)
        /\ Cardinality(BorrowedBy(req[p].user)) = MAX_BORROWED_BOOKS
        /\ req[p].id \in DOMAIN books
        /\ req[p].id \notin BorrowedBy(req[p].user)
        /\ books[req[p].id].quantity = 0

\* C4: no user has more than 3 successful borrows that were not returned.
C4_OutstandingAtMostLimit ==
    \A u \in Users : outstanding[u] <= MAX_BORROWED_BOOKS

\* C5 as stated: a borrow by U2 of a book of quantity 0 that is persisted
\* as borrowed by another user ends with the Unavailable error and changes
\* no record.
C5_ExhaustedStockUnavailable ==
    [][\A p \in Procs :
          ( /\ LeavesBorrowCheck(p)
            /\ req[p].id \in DOMAIN books
            /\ books[req[p].id].quantity = 0
            /\ snap[p][1].quantity = 0
            /\ books[req[p].id].status = BORROWED
            /\ books[req[p].id].borrowerId \in Users \ {req[p].user} )
          => /\ resp'[p] = BadRequest(UnavailableMsg)
             /\ pc'[p] = "done"
             /\ books' = books
      ]_vars

\* C5 as amended: the same, for a user U2 with fewer than 3 books
\* persisted as borrowed.
C5_ExhaustedStockUnavailableUnderLimit ==
    [][\A p \in Procs :
          ( /\ LeavesBorrowCheck(p)
            /\ req[p].id \in DOMAIN books
            /\ books[req[p].id].quantity = 0
            /\ snap[p][1].quantity = 0
            /\ books[req[p].id].status = BORROWED
            /\ books[req[p].id].borrowerId \in Users \ {req[p].user}
            /\ Cardinality(BorrowedBy(req[p].user)) < MAX_BORROWED_BOOKS )
          => /\ resp'[p] = BadRequest(UnavailableMsg)
             /\ pc'[p] = "done"
             /\ books' = books
      ]_vars

\* U2 got the Unavailable error on the book of initial quantity 1 that is
\* persisted as borrowed by U1 with quantity 0
C5_Witness ==
    \E p \in Procs :
        /\ pc[p] = "done" /\ req[p].op = "borrow"
        /\ resp[p] = BadRequest(UnavailableMsg)
        /\ req[p].id \in DOMAIN books
        /\ InitQuantity(req[p].id) = 1
        /\ books[req[p].id].quantity = 0
        /\ books[req[p].id].status = BORROWED
        /\ books[req[p].id].borrowerId \in Users \ {req[p].user}

\* C6: the persisted quantity of every book is >= 0.
C6_QuantityNonNegative ==
    \A b \in DOMAIN books : books[b].quantity >= 0

\* a borrow that read a positive quantity is about to write while the
\* persisted quantity is already 0
C6_Witness ==
    \E p \in Procs :
        /\ pc[p] = "borrow_write"
        /\ req[p].id \in DOMAIN books
        /\ snap[p][1].quantity > 0
        /\ books[req[p].id].quantity = 0

\* C7: the write of a borrow that passed the availability check succeeds
\* whenever the record exists, also when the persisted quantity is no
\* longer the quantity that was read.
C7_WriteGuardedByExistenceOnly ==
    [][\A p \in Procs :
          ( pc[p] = "borrow_write" /\ pc'[p] # "borrow_write" /\ req[p].id \in DOMAIN books )
          => /\ resp'[p].kind = "ok"
             /\ books'[req[p].id].borrowerId = req[p].user
      ]_vars

\* two borrows by different users both succeeded on a book created with
\* quantity 1, each having read quantity 1 and written quantity 0
C7_Witness ==
    \E p, q \in Procs :
        /\ p # q
        /\ pc[p] = "done" /\ pc[q] = "done"
        /\ req[p].op = "borrow" /\ req[q].op = "borrow"
        /\ req[p].id = req[q].id
        /\ req[p].user # req[q].user
        /\ InitQuantity(req[p].id) = 1
        /\ resp[p].kind = "ok" /\ resp[q].kind = "ok"
        /\ resp[p].books[1].quantity = 0 /\ resp[q].books[1].quantity = 0

DerivingReaders == {"findOne", "findAll", "findByCategory", "findByAuthor"}

\* C8: findOne, findAll, findByCategory and findByAuthor change no record
\* and return every book as persisted, but with status AVAILABLE when its
\* quantity is > 0 and UNAVAILABLE otherwise, so that the status returned
\* is a function of the unchanged persisted quantity.
C8_ReadersDeriveStatus ==
    [][\A p \in Procs :
          CompletesAtOnce(p, DerivingReaders)
          => /\ books' = books
             /\ \A i \in DOMAIN resp'[p].books :
                   LET r == resp'[p].books[i]
                   IN  /\ r.id \in DOMAIN books
                       /\ r.status = IF books[r.id].quantity > 0
                                     THEN AVAILABLE ELSE UNAVAILABLE
                       /\ r.status # BORROWED
                       /\ r = [books[r.id] EXCEPT !.status = r.status]
      ]_vars

\* findOne returned UNAVAILABLE for a book that is persisted, and stays
\* persisted, with status BORROWED
C8_Witness ==
    \E p \in Procs :
        /\ pc[p] = "done" /\ req[p].op = "findOne" /\ resp[p].kind = "ok"
        /\ resp[p].books[1].status = UNAVAILABLE
        /\ books[req[p].id].status = BORROWED
        /\ books[req[p].id].quantity = 0

\* C9: findByTitle and findByRating return no book with status BORROWED:
\* the status of every returned book is the one computed from its quantity.
C9_TitleAndRatingDeriveStatus ==
    \A p \in Procs :
        ( pc[p] = "done" /\ req[p].op \in {"findByTitle", "findByRating"} )
        => \A i \in DOMAIN resp[p].books :
              /\ resp[p].books[i].status # BORROWED
              /\ resp[p].books[i].status =
                    IF resp[p].books[i].quantity > 0 THEN AVAILABLE ELSE UNAVAILABLE

\* C10: findOne, borrow and returnBook on an id with no record fail with
\* NotFound and write nothing.
C10_MissingIdIsNotFound ==
    [][\A p \in Procs :
          ( /\ CompletesAtOnce(p, {"findOne", "borrow", "returnBook"})
            /\ req'[p].id \notin DOMAIN books )
          => /\ resp'[p].kind = "NotFound"
             /\ books' = books
      ]_vars

\* ------------------------------------------- the claims on the managers
DecrementOps == {"decrementCategory", "decrementAuthor"}

\* the table a request on a manager is about
TableOf(op) ==
    IF op \in {"createCategory", "removeCategory", "incrementCategory",
               "decrementCategory"}
    THEN categories ELSE authors

\* C11: the booksCount of every category and author is >= 0 in every
\* state, and a decrementBooksCount on a record whose booksCount is 0
\* fails and changes no record.
C11_CounterNeverNegative ==
    /\ [](/\ \A c \in DOMAIN categories : categories[c].booksCount >= 0
          /\ \A a \in DOMAIN authors : authors[a].booksCount >= 0)
    /\ [][\A p \in Procs :
             ( /\ CompletesAtOnce(p, DecrementOps)
               /\ req'[p].id \in DOMAIN TableOf(req'[p].op)
               /\ TableOf(req'[p].op)[req'[p].id].booksCount = 0 )
             => /\ resp'[p].kind # "ok"
                /\ categories' = categories /\ authors' = authors
         ]_vars

\* two processes decremented the counter of the same category, one
\* succeeded and the other failed, and the counter is 0
C11_Witness ==
    \E p, q \in Procs :
        /\ pc[p] = "done" /\ pc[q] = "done"
        /\ req[p].op = "decrementCategory" /\ req[q].op = "decrementCategory"
        /\ req[p].id = req[q].id
        /\ resp[p].kind = "ok" /\ resp[q].kind = "BadRequest"
        /\ req[p].id \in DOMAIN categories
        /\ categories[req[p].id].booksCount = 0

\* process p leaves, in this step, the step of remove that reads the
\* counter of the record
LeavesRemoveCheck(p) ==
    \/ pc[p] = "category_remove_check" /\ pc'[p] # "category_remove_check"
    \/ pc[p] = "idle" /\ pc'[p] # "idle" /\ req'[p].op = "removeAuthor"

\* C12: a remove of a category or author that reads booksCount > 0 fails
\* with a Conflict error and the record stays; a remove that reads
\* booksCount = 0 goes on to its delete, which succeeds and after which
\* the record is gone.
C12_RemoveGuardedByCounter ==
    [][\A p \in Procs :
          LET table == TableOf(req'[p].op)
              id == req'[p].id
          IN  /\ ( LeavesRemoveCheck(p) /\ id \in DOMAIN table
                   /\ table[id].booksCount > 0 )
                 => /\ pc'[p] = "done"
                    /\ HttpStatus(resp'[p].kind) = CONFLICT
                    /\ categories' = categories /\ authors' = authors
              /\ ( LeavesRemoveCheck(p) /\ id \in DOMAIN table
                   /\ table[id].booksCount = 0 )
                 => pc'[p] \in {"category_delete", "author_delete"}
              /\ ( pc[p] \in {"category_delete", "author_delete"} /\ pc'[p] = "done" )
                 => /\ resp'[p].kind = "ok"
                    /\ id \notin DOMAIN categories' \cup DOMAIN authors'
      ]_vars

AlreadyExists == {"CategoryAlreadyExistsException", "AuthorAlreadyExistsException"}

\* C15 as stated: a create of a category or author whose name is the name
\* of a persisted record of that table fails with AlreadyExists, persists
\* no record and uploads nothing.
C15_DuplicateNameRejected ==
    [][\A p \in Procs :
          ( /\ pc[p] = "idle" /\ req'[p].op \in {"createCategory", "createAuthor"}
            /\ findByName(TableOf(req'[p].op), req'[p].name) # {} )
          => /\ pc'[p] = "done"
             /\ resp'[p].kind \in AlreadyExists
             /\ categories' = categories /\ authors' = authors
             /\ blobs' = blobs
      ]_vars

\* C15 as amended: the same, for a create of a category, or of an author
\* whose profile picture, if there is one, is an image file.
C15_DuplicateNameRejectedForImages ==
    [][\A p \in Procs :
          ( /\ pc[p] = "idle" /\ req'[p].op \in {"createCategory", "createAuthor"}
            /\ findByName(TableOf(req'[p].op), req'[p].name) # {}
            /\ req'[p].picture # "other" )
          => /\ pc'[p] = "done"
             /\ resp'[p].kind \in AlreadyExists
             /\ categories' = categories /\ authors' = authors
             /\ blobs' = blobs
      ]_vars

\* a create of an author with an image as profile picture was rejected
\* with AlreadyExists: the name is the name of the one persisted author,
\* and there is no blob
C15_Witness ==
    \E p \in Procs :
        /\ pc[p] = "done" /\ req[p].op = "createAuthor"
        /\ req[p].picture = "image"
        /\ resp[p].kind = "AuthorAlreadyExistsException"
        /\ Cardinality(findByName(authors, req[p].name)) = 1
        /\ Cardinality(DOMAIN authors) = 1
        /\ blobs = {}

\* C17: the put of a create that passed the name check succeeds and adds
\* a record of that name, whatever records of that name were persisted
\* since the check: the put is conditioned on the new id only.
C17_PutIgnoresName ==
    [][\A p \in Procs :
          ( pc[p] \in {"category_put", "author_put"} /\ pc'[p] = "done" )
          => /\ resp'[p].kind = "ok"
             /\ resp'[p].books[1].name = req[p].name
             /\ LET old == IF pc[p] = "category_put" THEN categories ELSE authors
                    new == IF pc[p] = "category_put" THEN categories' ELSE authors'
                IN  /\ DOMAIN new = DOMAIN old \cup {resp'[p].books[1].id}
                    /\ resp'[p].books[1].id \notin DOMAIN old
                    /\ Cardinality(findByName(new, req[p].name)) =
                          Cardinality(findByName(old, req[p].name)) + 1
      ]_vars

\* two concurrent creates of a category with the same name both succeeded
\* and left two records with that name
C17_Witness ==
    \E p, q \in Procs :
        /\ p # q
        /\ pc[p] = "done" /\ pc[q] = "done"
        /\ req[p].op = "createCategory" /\ req[q].op = "createCategory"
        /\ req[p].name = req[q].name
        /\ resp[p].kind = "ok" /\ resp[q].kind = "ok"
        /\ resp[p].books[1].id # resp[q].books[1].id
        /\ {resp[p].books[1].id, resp[q].books[1].id} \subseteq DOMAIN categories
        /\ Cardinality(findByName(categories, req[p].name)) = 2

\* ------------------------------------------ the claims on the catalogue
\* the persisted books that reference category c, author a
BooksOfCategory(c) == {b \in DOMAIN books : books[b].categoryId = c}
BooksOfAuthor(a) == {b \in DOMAIN books : books[b].authorId = a}

Quiescent == \A p \in Procs : pc[p] \in {"idle", "done"}

\* C13: when every create and remove of a book so far has completed
\* without error, the booksCount of every category and of every author is
\* the number of the persisted books that reference it.
C13_CountersMatchBooks ==
    ( Quiescent /\ ~failed )
    => /\ \A c \in DOMAIN categories :
             categories[c].booksCount = Cardinality(BooksOfCategory(c))
       /\ \A a \in DOMAIN authors :
             authors[a].booksCount = Cardinality(BooksOfAuthor(a))

\* C14: the delete of a remove of a category or author never succeeds
\* while a persisted book references the record, so that every persisted
\* book references a persisted category and a persisted author.
C14_NoRemoveWhileReferenced ==
    [][\A p \in Procs :
          /\ ( pc[p] = "category_delete" /\ pc'[p] = "done" /\ resp'[p].kind = "ok" )
             => BooksOfCategory(req[p].id) = {}
          /\ ( pc[p] = "author_delete" /\ pc'[p] = "done" /\ resp'[p].kind = "ok" )
             => BooksOfAuthor(req[p].id) = {}
      ]_vars

\* C16: no two persisted books have the same isbn, and a create, with its
\* two attachments, with the isbn of a persisted book fails at once with
\* BookAlreadyExistsException and persists nothing.
C16_IsbnUnique ==
    /\ [](\A b1, b2 \in DOMAIN books :
             books[b1].isbn = books[b2].isbn => b1 = b2)
    /\ [][\A p \in Procs :
             ( /\ pc[p] = "idle" /\ req'[p].op = "createBook"
               /\ req'[p].cover /\ req'[p].pdf
               /\ \E b \in DOMAIN books : books[b].isbn = req'[p].isbn )
             => /\ pc'[p] = "done"
                /\ resp'[p].kind = "BookAlreadyExistsException"
                /\ books' = books
         ]_vars

\* C19: in create, the put of the book changes no counter and is followed
\* by the increment of the category, which changes no author and is
\* followed, when it succeeds, by the increment of the author; when the
\* increment of the category fails, create ends with an error, the book
\* stays persisted, and no counter and no record is written.
C19_CategoryIncrementFailureLeavesBook ==
    [][\A p \in Procs :
          /\ ( pc[p] = "book_put" /\ pc'[p] # "done" )
             => /\ pc'[p] = "book_category"
                /\ snap'[p][1].id \in DOMAIN books' \ DOMAIN books
                /\ categories' = categories /\ authors' = authors
          /\ ( pc[p] = "book_category" /\ req[p].categoryId \in DOMAIN categories )
             => /\ pc'[p] = "book_author"
                /\ categories'[req[p].categoryId].booksCount =
                      categories[req[p].categoryId].booksCount + 1
                /\ authors' = authors /\ books' = books
          /\ ( pc[p] = "book_category" /\ req[p].categoryId \notin DOMAIN categories )
             => /\ pc'[p] = "done"
                /\ resp'[p].kind = "CategoryUpdateException"
                /\ books' = books /\ snap[p][1].id \in DOMAIN books'
                /\ authors' = authors /\ categories' = categories
          /\ ( pc[p] = "done" /\ req[p].op = "createBook" )
             => /\ pc'[p] = "idle"
                /\ books' = books /\ authors' = authors /\ categories' = categories
      ]_vars

\* a create ended with the error of the category increment: its book is
\* persisted and references a category that does not exist, and the
\* counter of its author, which exists, is still 0
C19_Witness ==
    \E p \in Procs :
        /\ pc[p] = "done" /\ req[p].op = "createBook"
        /\ resp[p].kind = "CategoryUpdateException"
        /\ req[p].categoryId \notin DOMAIN categories
        /\ req[p].authorId \in DOMAIN authors
        /\ authors[req[p].authorId].booksCount = 0
        /\ \E b \in DOMAIN books :
              /\ books[b].categoryId = req[p].categoryId
              /\ books[b].authorId = req[p].authorId

\* C18: when an upload of an update has failed and the update has ended
\* with that error, the cover and the pdf of every persisted book exist in
\* the blob store.
C18_FailedUploadKeepsBlobs ==
    \A p \in Procs :
        ( /\ pc[p] = "done" /\ req[p].op = "update"
          /\ resp[p] = Failure("InternalServerError", "Failed to upload file") )
        => \A b \in DOMAIN books : books[b].cover \in blobs /\ books[b].pdf \in blobs

\* the borrow that process p checks in this step is eligible but for its
\* dates
EligibleButForDates(p) ==
    /\ req[p].id \notin BorrowedBy(req[p].user)
    /\ Cardinality(BorrowedBy(req[p].user)) < MAX_BORROWED_BOOKS
    /\ snap[p][1].quantity > 0

\* process p ends its borrow, in this step, with a bad-request error and
\* nothing is written
Rejected(p) ==
    /\ pc'[p] = "done"
    /\ resp'[p].kind = "BadRequest"
    /\ books' = books

\* C20: an otherwise eligible borrow is rejected when its startDate is
\* before the current time, when its returnDate is not after its
\* startDate, and when its span is longer than 30 days, be it by an hour;
\* it goes on to its write when it starts now or later and spans exactly
\* 30 days.
C20_BorrowDatesValidated ==
    [][\A p \in Procs :
          ( LeavesBorrowCheck(p) /\ EligibleButForDates(p) )
          => LET startDate == req'[p].startDate
                 returnDate == req'[p].returnDate
             IN  /\ startDate < Now => Rejected(p)
                 /\ returnDate <= startDate => Rejected(p)
                 /\ returnDate - startDate > MAX_BORROW_DAYS * DayLen => Rejected(p)
                 /\ ( startDate >= Now
                      /\ returnDate - startDate = MAX_BORROW_DAYS * DayLen )
                    => /\ pc'[p] = "borrow_write"
                       /\ books' = books
      ]_vars

\* a borrow of an available book that starts now and spans 30 days and
\* one hour was rejected for its duration
C20_Witness ==
    \E p \in Procs :
        /\ pc[p] = "done" /\ req[p].op = "borrow"
        /\ resp[p] = BadRequest("Maximum borrow duration is 30 days")
        /\ req[p].startDate = Now
        /\ req[p].returnDate - req[p].startDate = MAX_BORROW_DAYS * DayLen + 1
        /\ books[req[p].id].quantity > 0

\* ------------------------------------------------------------ C21 .. C30
AlreadyBorrowedMsg == "You have already borrowed this book"

\* C21: a borrow(B, U) whose check step finds B persisted with borrowerId U
\* and status BORROWED ends with the already-borrowed error, whatever the
\* number of books of U, the quantity of B and the dates of the request,
\* and changes no record.
C21_AlreadyBorrowedDecidedFirst ==
    [][\A p \in Procs :
          ( /\ LeavesBorrowCheck(p)
            /\ req[p].id \in BorrowedBy(req[p].user) )
          => /\ resp'[p] = BadRequest(AlreadyBorrowedMsg)
             /\ pc'[p] = "done"
             /\ books' = books
      ]_vars

\* a user at the borrow limit got the already-borrowed error on a book of
\* theirs that has no copy left, with a start date in the past
C21_Witness ==
    \E p \in Procs :
        /\ pc[p] = "done" /\ req[p].op = "borrow"
        /\ resp[p] = BadRequest(AlreadyBorrowedMsg)
        /\ req[p].id \in BorrowedBy(req[p].user)
        /\ Cardinality(BorrowedBy(req[p].user)) >= MAX_BORROWED_BOOKS
        /\ books[req[p].id].quantity <= 0
        /\ req[p].startDate < Now

NotBorrowerMsg == "Book was not borrowed by you"

\* C22: returnBook(id, U) on a book persisted as BORROWED by another user
\* ends with the not-the-borrower error and changes no record.
C22_ReturnByOtherUserIsNotBorrower ==
    [][\A p \in Procs :
          ( /\ CompletesAtOnce(p, {"returnBook"})
            /\ req'[p].id \in DOMAIN books
            /\ books[req'[p].id].status = BORROWED
            /\ books[req'[p].id].borrowerId \notin {NoUser, req'[p].user} )
          => /\ resp'[p] = BadRequest(NotBorrowerMsg)
             /\ books' = books
      ]_vars

\* a record of the table other than id carries the name
OtherHasName(store, id, name) ==
    \E k \in DOMAIN store \ {id} : store[k].name = name

\* the steps of an update(id, dto) of process p whose dto.name is the name
\* of another record end in AlreadyExists with the table unchanged, those
\* whose dto.name is the name of the record itself end in a successful
\* update that leaves the record as it was, and no step of a Category
\* update changes a booksCount; for Author, with a picture of pictures
UpdateNameChecked(p, pictures) ==
    /\ ( /\ pc[p] = "idle" /\ req'[p].op = "updateCategory"
         /\ req'[p].id \in DOMAIN categories
         /\ \/ OtherHasName(categories, req'[p].id, req'[p].name)
            \/ categories[req'[p].id].name = req'[p].name )
       => pc'[p] = "category_update_check"
    /\ ( /\ pc[p] = "category_update_check" /\ pc'[p] # pc[p]
         /\ OtherHasName(categories, req[p].id, req[p].name) )
       => /\ pc'[p] = "done"
          /\ resp'[p].kind = "CategoryAlreadyExistsException"
          /\ HttpStatus(resp'[p].kind) = CONFLICT
          /\ categories' = categories
    /\ ( /\ pc[p] = "category_update_check" /\ pc'[p] # pc[p]
         /\ req[p].id \in DOMAIN categories
         /\ categories[req[p].id].name = req[p].name
         /\ ~OtherHasName(categories, req[p].id, req[p].name) )
       => pc'[p] = "category_update_write"
    /\ ( /\ pc[p] = "category_update_write" /\ pc'[p] # pc[p]
         /\ req[p].id \in DOMAIN categories
         /\ categories[req[p].id].name = req[p].name )
       => /\ pc'[p] = "done" /\ resp'[p].kind = "ok"
          /\ resp'[p].books = <<categories[req[p].id]>>
          /\ categories' = categories
    /\ req'[p].op = "updateCategory"
       => \A c \in DOMAIN categories :
             /\ c \in DOMAIN categories'
             /\ categories'[c].booksCount = categories[c].booksCount
    /\ ( /\ pc[p] = "idle" /\ req'[p].op = "updateAuthor"
         /\ req'[p].picture \in pictures
         /\ req'[p].id \in DOMAIN authors
         /\ OtherHasName(authors, req'[p].id, req'[p].name) )
       => pc'[p] = "author_update_check"
    /\ ( /\ pc[p] = "author_update_check" /\ pc'[p] # pc[p]
         /\ OtherHasName(authors, req[p].id, req[p].name) )
       => /\ pc'[p] = "done"
          /\ resp'[p].kind = "AuthorAlreadyExistsException"
          /\ HttpStatus(resp'[p].kind) = CONFLICT
          /\ authors' = authors /\ blobs' = blobs
    /\ ( /\ pc[p] = "idle" /\ req'[p].op = "updateAuthor"
         /\ req'[p].picture \in pictures
         /\ req'[p].id \in DOMAIN authors
         /\ authors[req'[p].id].name = req'[p].name )
       => pc'[p] = IF req'[p].picture = "image"
                   THEN "author_update_upload"
                   ELSE "author_update_write"
    /\ ( /\ pc[p] = "author_update_upload" /\ pc'[p] # pc[p]
         /\ blobs' # blobs )
       => pc'[p] = "author_update_write" /\ authors' = authors
    /\ ( /\ pc[p] = "author_update_upload" /\ pc'[p] # pc[p]
         /\ blobs' = blobs )
       => /\ pc'[p] = "done"
          /\ resp'[p] = Failure("AuthorUpdateException", "Failed to upload file")
          /\ authors' = authors
    /\ ( /\ pc[p] = "author_update_write" /\ pc'[p] # pc[p]
         /\ req[p].id \in DOMAIN authors
         /\ authors[req[p].id].name = req[p].name )
       => /\ pc'[p] = "done" /\ resp'[p].kind = "ok"
          /\ authors'[req[p].id].name = req[p].name
          /\ authors'[req[p].id].booksCount = authors[req[p].id].booksCount

\* C23: an update(id, dto) of a Category or of an Author whose dto.name is
\* the name of another persisted record fails with AlreadyExists and leaves
\* the record unchanged, one whose dto.name is the record's own name
\* succeeds, and a Category update changes no booksCount.
C23_UpdateNameUnique ==
    [][\A p \in Procs : UpdateNameChecked(p, Pictures)]_vars

\* C23, amended: the same, for an Author update whose profile picture, if
\* one is sent, is an image: with the record's own name it passes to the
\* upload of the image and, unless that upload fails, to the update, which
\* succeeds; an Author update with another file fails with
\* AuthorUpdateException before the record is read, and changes nothing.
C23_UpdateNameUniqueForImages ==
    [][\A p \in Procs :
          /\ UpdateNameChecked(p, {"none", "image"})
          /\ ( /\ pc[p] = "idle" /\ req'[p].op = "updateAuthor"
               /\ req'[p].picture = "other" )
             => /\ pc'[p] = "done"
                /\ resp'[p].kind = "AuthorUpdateException"
                /\ authors' = authors /\ blobs' = blobs
      ]_vars

\* an Author update sent with an image and the name of another author was
\* rejected with AlreadyExists
C23_Witness ==
    \E p \in Procs :
        /\ pc[p] = "done" /\ req[p].op = "updateAuthor"
        /\ req[p].picture = "image"
        /\ req[p].id \in DOMAIN authors
        /\ OtherHasName(authors, req[p].id, req[p].name)
        /\ resp[p].kind = "AuthorAlreadyExistsException"

\* C24: a decrementBooksCount on a record whose booksCount is 0 ends, in
\* the Category manager and in the Author manager alike, with an error of
\* HTTP status 400 (bad request).
C24_UnderflowIsBadRequest ==
    [][\A p \in Procs :
          ( /\ CompletesAtOnce(p, DecrementOps)
            /\ req'[p].id \in DOMAIN TableOf(req'[p].op)
            /\ TableOf(req'[p].op)[req'[p].id].booksCount = 0 )
          => /\ resp'[p].kind # "ok"
             /\ HttpStatus(resp'[p].kind) = BAD_REQUEST
      ]_vars

\* C25: remove deletes the cover, then the pdf, and only then the record:
\* the step on the cover deletes the cover alone or ends the call with the
\* error of deleteFile, the step on the pdf likewise, none of the two
\* changes a record, the delete of the record is sent only after both
\* blobs are gone, and after a successful remove the record is absent.
C25_RemoveDeletesBlobsThenRecord ==
    [][\A p \in Procs :
          /\ ( pc[p] = "remove_cover" /\ pc'[p] # pc[p] )
             => /\ books' = books
                /\ \/ /\ pc'[p] = "remove_pdf"
                      /\ blobs' = blobs \ {snap[p][1].cover}
                   \/ /\ pc'[p] = "done" /\ resp'[p] = DeleteFileFailed
                      /\ blobs' = blobs
          /\ ( pc[p] = "remove_pdf" /\ pc'[p] # pc[p] )
             => /\ books' = books
                /\ \/ /\ pc'[p] = "remove_delete"
                      /\ blobs' = blobs \ {snap[p][1].pdf}
                      /\ snap[p][1].cover \notin blobs'
                   \/ /\ pc'[p] = "done" /\ resp'[p] = DeleteFileFailed
                      /\ blobs' = blobs
          /\ ( pc[p] = "remove_delete" /\ pc'[p] # pc[p] )
             => /\ snap[p][1].cover \notin blobs
                /\ snap[p][1].pdf \notin blobs
                /\ pc'[p] = "done"
                /\ resp'[p].kind = "ok" => req[p].id \notin DOMAIN books'
          /\ ( req'[p].op = "remove" /\ pc'[p] # pc[p]
               /\ DOMAIN books' # DOMAIN books )
             => pc[p] = "remove_delete"
      ]_vars

\* a remove deleted the cover, failed on the pdf, and the record is still
\* persisted
C25_Witness ==
    \E p \in Procs :
        /\ pc[p] = "done" /\ req[p].op = "remove"
        /\ resp[p] = DeleteFileFailed
        /\ req[p].id \in DOMAIN books
        /\ books[req[p].id].cover \notin blobs
        /\ books[req[p].id].pdf \in blobs

\* the position of the book of id in the sequence bks
PositionOf(bks, id) == CHOOSE i \in DOMAIN bks : bks[i].id = id

\* C26: a search that answers returns the books the scan found, each once,
\* ordered by descending number of words of the query (lower-cased, split
\* on spaces, empty words dropped) that the lower-cased title or the
\* lower-cased author of the book includes; books with the same number
\* keep the order of the scan.
C26_SearchRanksByMatches ==
    \A p \in Procs :
        ( pc[p] = "done" /\ req[p].op = "search" /\ resp[p].kind = "ok" )
        => LET words == queryWords(req[p].title)
               found == Items(books, {b \in DOMAIN books :
                                        SearchFilter(books[b], words)})
               r == resp[p].books
               n(i) == Cardinality({w \in DOMAIN words :
                          \/ includes(toLowerCase(r[i].title), words[w])
                          \/ /\ "author" \in DOMAIN r[i]
                             /\ includes(toLowerCase(r[i].author), words[w])})
           IN  /\ Len(r) = Len(found)
               /\ \A i \in DOMAIN found : \E j \in DOMAIN r : r[j] = found[i]
               /\ \A i, j \in DOMAIN r :
                     i < j => /\ n(i) >= n(j)
                              /\ n(i) = n(j) =>
                                   PositionOf(found, r[i].id) < PositionOf(found, r[j].id)

\* the number of words the lower-cased title of a book includes
TitleMatches(book, words) ==
    Cardinality({w \in DOMAIN words : includes(toLowerCase(book.title), words[w])})

\* a search of two words returned a book that matches one word behind a
\* book the scan found later that matches both, one of them in its author
\* only; a book the scan found by its author alone; and two books with
\* the same number of matches in the order of the scan
C26_Witness ==
    \E p \in Procs :
        /\ pc[p] = "done" /\ req[p].op = "search" /\ resp[p].kind = "ok"
        /\ Len(queryWords(req[p].title)) = 2
        /\ Len(resp[p].books) >= 3
        /\ \E i, j \in DOMAIN resp[p].books :
              /\ i < j /\ resp[p].books[i].id > resp[p].books[j].id
              /\ Matches(resp[p].books[i], queryWords(req[p].title)) = 2
              /\ TitleMatches(resp[p].books[i], queryWords(req[p].title)) = 1
              /\ Matches(resp[p].books[j], queryWords(req[p].title)) = 1
        /\ \E i \in DOMAIN resp[p].books :
              /\ TitleMatches(resp[p].books[i], queryWords(req[p].title)) = 0
              /\ "author" \in DOMAIN resp[p].books[i]
        /\ \E i, j \in DOMAIN resp[p].books :
              /\ i < j
              /\ Matches(resp[p].books[i], queryWords(req[p].title))
                   = Matches(resp[p].books[j], queryWords(req[p].title))

\* C27: no step of a borrow call other than the completion of a successful
\* one writes: a call that ends in a rejection (already borrowed, limit,
\* unavailable, dates, book absent) leaves the books, the categories, the
\* authors and the blobs as they were.
C27_RejectedBorrowWritesNothing ==
    [][\A p \in Procs :
          ( /\ req'[p].op = "borrow" /\ pc'[p] # pc[p]
            /\ ~(pc'[p] = "done" /\ resp'[p].kind = "ok") )
          => /\ books' = books
             /\ categories' = categories /\ authors' = authors
             /\ blobs' = blobs /\ outstanding' = outstanding
      ]_vars

\* a borrow was rejected for its dates, and the record of the book is the
\* one the book was created with
C27_Witness ==
    \E p \in Procs :
        /\ pc[p] = "done" /\ req[p].op = "borrow"
        /\ resp[p] = BadRequest("Return date must be after start date")
        /\ req[p].id \in DOMAIN books
        /\ books[req[p].id] =
             NewBook(req[p].id, CatalogueDto(req[p].id),
                     CoverOf(req[p].id), PdfOf(req[p].id))

AtLimit(u) == Cardinality(BorrowedBy(u)) >= MAX_BORROWED_BOOKS

\* C29: a returnBook of a user at the borrow limit on one of the books
\* persisted as borrowed by them passes the checks of returnBook, and its
\* write takes the user below the limit, so that a later borrow is no
\* longer rejected with the borrow-limit error.
C29_ReturnLiftsTheLimit ==
    [][\A p \in Procs :
          /\ ( /\ pc[p] = "idle" /\ req'[p].op = "returnBook"
               /\ AtLimit(req'[p].user)
               /\ req'[p].id \in BorrowedBy(req'[p].user) )
             => pc'[p] = "return_write"
          /\ ( /\ pc[p] = "return_write" /\ pc'[p] = "done"
               /\ resp'[p].kind = "ok" )
             => Cardinality({b \in DOMAIN books' :
                               /\ books'[b].borrowerId = req[p].user
                               /\ books'[b].status = BORROWED})
                  < Cardinality(BorrowedBy(req[p].user))
      ]_vars

UpdateOps == {"updateCategory", "updateAuthor"}

\* the update of the request of p is sent in this step, and the record it
\* is about has been removed
WritesOnRemoved(p) ==
    /\ pc'[p] = "done"
    /\ \/ pc[p] = "category_update_write" /\ req[p].id \notin DOMAIN categories
       \/ pc[p] = "author_update_write" /\ req[p].id \notin DOMAIN authors

\* C30: the write of an update of a category or of an author that was
\* removed after the update read it fails with NotFound (HTTP 404), and no
\* step of an update adds a record to a table.
C30_WritesConditionedOnExistence ==
    [][\A p \in Procs :
          /\ WritesOnRemoved(p)
             => /\ resp'[p].kind # "ok"
                /\ HttpStatus(resp'[p].kind) = NOT_FOUND
          /\ ( req'[p].op \in UpdateOps /\ pc'[p] # pc[p] )
             => /\ DOMAIN categories' \subseteq DOMAIN categories
                /\ DOMAIN authors' \subseteq DOMAIN authors
      ]_vars

====
